---------------------------- MODULE Spec2Model ----------------------------
(***************************************************************************)
(* A model of the transaction interpretation engine of                     *)
(* src/src/services/suiService.ts: the fetch orchestration                 *)
(* (fetchTransactionDetails, retryWithBackoff, tryAlternativeEndpoint),    *)
(* the enrichment orchestration (enrichWithObjectData), the asset          *)
(* classifier (isNFTObject) and the address labelling of parseTransaction. *)
(*                                                                         *)
(* Strings of the program are TLA+ strings; String.includes, slice and     *)
(* toLowerCase are computed character by character.                        *)
(***************************************************************************)
EXTENDS Integers, Sequences, FiniteSets, TLC

VARIABLES
    pc,             \* position of the running operation
    objectType,     \* isNFTObject: the type identifier argument
    objectData,     \* isNFTObject: the enriched data argument
    isNFT,          \* isNFTObject: the returned flag
    addressToUser,  \* parseTransaction: the address -> label Map, in insertion order
    userIndex,      \* parseTransaction: the next unused index of userLabels
    sender,         \* parseTransaction: the sender, 'Unknown' when the record has none
    encounter,      \* history: the labelable addresses in first-encounter order
    txBlock,        \* the raw transaction record with its enrichedObjects Map
    objectsCreated, \* parseTransaction: the normalized created changes
    objectsTransferred, \* parseTransaction: the normalized transferred changes
    loopIndex,      \* parseTransaction: the index of the running for loop
    selected,       \* enrichWithObjectData: allObjectsToFetch
    getObjectCalls, \* the object ids getObject was invoked with, in order
    fetchState,     \* per selected object: the getObject promise (inflight, resolved, rejected)
    fetchData,      \* per selected object: the response a resolved getObject carries
    slots,          \* per selected object: objectDataPromises[i] (pending, value, null)
    timers,         \* the setTimeout timers still to fire
    firstOutcome,   \* history: per object, which of success, rejection, timeout came first
    overallFired,   \* history: the aggregate timer has fired
    completedAtOverall, \* history: the objects whose getObject had resolved at that moment
    isDev,          \* import.meta.env.DEV
    client,         \* the module-wide SuiClient: the endpoint it talks to
    attempt,        \* retryWithBackoff: the loop counter i
    attemptedFallback, \* fetchTransactionDetails: the flag of the running invocation
    depth,          \* the number of recursive invocations below the top-level call
    switches,       \* history: the assignments client = testClient
    restarts,       \* history: the recursive calls of fetchTransactionDetails
    probeIndex,     \* tryAlternativeEndpoint: the index into FALLBACK_RPC_URLS
    lastError,      \* the message of the error last caught
    outcome,        \* what the top-level call gave its caller: none, value or error
    gasUsed,        \* parseTransaction: totalGas.toString()
    packageCalls,   \* parseTransaction: the Move calls of the transaction
    summary,        \* parseTransaction: the lines of generateSummary
    aiSummary,      \* parseTransaction: the headline of generateAISummary
    aiBreakdown,    \* parseTransaction: the lines of generateAIBreakdown
    delays,         \* history: the waits of retryWithBackoff in the running pass, in ms
    attemptErrors,  \* history: the error of each failed attempt of the running pass
    firstRun,       \* history: the result of an earlier parseTransaction on the same input
    activeCalls,    \* concurrent calls of fetchTransactionDetails: the locals of each
    fetchLog        \* history: the last switch of client and the fetch attempts sent since

clsVars == <<objectType, objectData, isNFT>>

labelVars == <<addressToUser, userIndex, sender, encounter>>

parseVars == <<txBlock, objectsCreated, objectsTransferred, loopIndex>>

enrichVars == <<selected, getObjectCalls, fetchState, fetchData, slots, timers,
                firstOutcome, overallFired, completedAtOverall>>

fetchVars == <<isDev, client, attempt, attemptedFallback, depth, switches, restarts,
               probeIndex, lastError, outcome>>

synthVars == <<gasUsed, packageCalls, summary, aiSummary, aiBreakdown>>

sharedVars == <<activeCalls, fetchLog>>

historyVars == <<delays, attemptErrors, firstRun, sharedVars>>

vars == <<pc, clsVars, labelVars, parseVars, enrichVars, fetchVars, synthVars, historyVars>>

(***************************************************************************)
(* String helpers (JavaScript String.prototype)                            *)
(***************************************************************************)

\* str.includes(pat)
Includes(str, pat) ==
    \E i \in 1..(Len(str) - Len(pat) + 1) : SubSeq(str, i, i + Len(pat) - 1) = pat

\* str.startsWith(pat)
StartsWith(str, pat) ==
    /\ Len(pat) <= Len(str)
    /\ SubSeq(str, 1, Len(pat)) = pat

UpperAlphabet == "ABCDEFGHIJKLMNOPQRSTUVWXYZ"

LowerAlphabet == "abcdefghijklmnopqrstuvwxyz"

UpperChars == { SubSeq(UpperAlphabet, i, i) : i \in 1..Len(UpperAlphabet) }

LowerOf ==
    [c \in UpperChars |->
        LET i == CHOOSE j \in 1..Len(UpperAlphabet) : SubSeq(UpperAlphabet, j, j) = c
        IN  SubSeq(LowerAlphabet, i, i)]

\* one character of str.toLowerCase()
LowerChar(c) == IF c \in UpperChars THEN LowerOf[c] ELSE c

RECURSIVE ToLowerCase(_)
\* str.toLowerCase()
ToLowerCase(str) ==
    IF Len(str) = 0 THEN ""
    ELSE LowerChar(SubSeq(str, 1, 1)) \o ToLowerCase(SubSeq(str, 2, Len(str)))

\* String.prototype.toUpperCase on ASCII
UpperOf ==
    [c \in { SubSeq(LowerAlphabet, i, i) : i \in 1..26 } |->
        LET i == CHOOSE j \in 1..26 : SubSeq(LowerAlphabet, j, j) = c
        IN  SubSeq(UpperAlphabet, i, i)]

RECURSIVE ToUpperCase(_)
ToUpperCase(str) ==
    IF str = "" THEN ""
    ELSE LET c == SubSeq(str, 1, 1)
         IN  (IF c \in DOMAIN UpperOf THEN UpperOf[c] ELSE c)
             \o ToUpperCase(SubSeq(str, 2, Len(str)))

\* the positions at which pat occurs in str
Occurrences(str, pat) ==
    { i \in 1..(Len(str) - Len(pat) + 1) : SubSeq(str, i, i + Len(pat) - 1) = pat }

MinOf(S) == CHOOSE x \in S : \A y \in S : x <= y

MaxOf(S) == CHOOSE x \in S : \A y \in S : x >= y

\* str.split(sep)[0]
BeforeFirst(str, sep) ==
    IF Occurrences(str, sep) = {} THEN str
    ELSE SubSeq(str, 1, MinOf(Occurrences(str, sep)) - 1)

\* the last element of str.split(sep)
AfterLast(str, sep) ==
    IF Occurrences(str, sep) = {} THEN str
    ELSE SubSeq(str, MaxOf(Occurrences(str, sep)) + Len(sep), Len(str))

\* str.replace(pat, '') with a string pattern: the first occurrence is removed
RemoveFirst(str, pat) ==
    IF Occurrences(str, pat) = {} THEN str
    ELSE LET i == MinOf(Occurrences(str, pat))
         IN  SubSeq(str, 1, i - 1) \o SubSeq(str, i + Len(pat), Len(str))

DecimalDigits == "0123456789"

IsDigit(c) == \E i \in 1..10 : SubSeq(DecimalDigits, i, i) = c

IsSpace(c) == c = " "

RECURSIVE TrimEnd(_)
TrimEnd(str) ==
    IF str # "" /\ IsSpace(SubSeq(str, Len(str), Len(str)))
    THEN TrimEnd(SubSeq(str, 1, Len(str) - 1)) ELSE str

RECURSIVE TrimStart(_)
TrimStart(str) ==
    IF str # "" /\ IsSpace(SubSeq(str, 1, 1))
    THEN TrimStart(SubSeq(str, 2, Len(str))) ELSE str

\* String.prototype.trim
Trim(str) == TrimStart(TrimEnd(str))

RECURSIVE DropTrailingDigits(_)
DropTrailingDigits(str) ==
    IF str # "" /\ IsDigit(SubSeq(str, Len(str), Len(str)))
    THEN DropTrailingDigits(SubSeq(str, 1, Len(str) - 1)) ELSE str

\* name.replace(/\s*\d+\s*$/, ''): a trailing run of digits goes, with the white
\* space around it
StripTrailingNumber(str) ==
    LET noSpace == TrimEnd(str)
        noDigits == DropTrailingDigits(noSpace)
    IN  IF noDigits = noSpace THEN str ELSE TrimEnd(noDigits)

\* a slice that takes one element too many
SliceOneMore(seq, n) == SubSeq(seq, 1, IF Len(seq) < n + 1 THEN Len(seq) ELSE n + 1)

\* array.slice(0, n)
Slice(seq, n) == SubSeq(seq, 1, IF Len(seq) < n THEN Len(seq) ELSE n)

(***************************************************************************)
(* Numbers.  An amount of the raw transaction is a decimal string; Number  *)
(* and BigInt read it, toString and toFixed write one.                     *)
(***************************************************************************)

DigitValue(c) == (CHOOSE i \in 1..10 : SubSeq(DecimalDigits, i, i) = c) - 1

RECURSIVE ParseDigits(_)
ParseDigits(str) ==
    IF str = "" THEN 0
    ELSE 10 * ParseDigits(SubSeq(str, 1, Len(str) - 1))
         + DigitValue(SubSeq(str, Len(str), Len(str)))

\* Number(str) and BigInt(str) of a decimal integer string
ParseNumber(str) ==
    IF str # "" /\ SubSeq(str, 1, 1) = "-"
    THEN 0 - ParseDigits(SubSeq(str, 2, Len(str)))
    ELSE ParseDigits(str)

RECURSIVE DigitsOf(_)
DigitsOf(n) ==
    IF n < 10 THEN SubSeq(DecimalDigits, n + 1, n + 1)
    ELSE DigitsOf(n \div 10) \o SubSeq(DecimalDigits, (n % 10) + 1, (n % 10) + 1)

\* toString of an integer
NumberToString(n) == IF n < 0 THEN "-" \o DigitsOf(0 - n) ELSE DigitsOf(n)

RECURSIVE Pow10(_)
Pow10(e) == IF e = 0 THEN 1 ELSE 10 * Pow10(e - 1)

RECURSIVE PadZeros(_, _)
PadZeros(str, width) == IF Len(str) >= width THEN str ELSE PadZeros("0" \o str, width)

\* (n / 10^decimals).toFixed(places) for n >= 0 and places <= decimals: the nearest
\* number with that many places.  A decimal tie (a remainder of exactly half a
\* unit of the last place) is rounded up here; toFixed decides it by the binary
\* value of the quotient, so the amounts of the model have no tie.
ToFixed(n, decimals, places) ==
    LET unit == Pow10(decimals - places)
        q == (n + (unit \div 2)) \div unit
    IN  DigitsOf(q \div Pow10(places)) \o "."
        \o PadZeros(DigitsOf(q % Pow10(places)), places)

IsDecimalTie(n, decimals, places) ==
    LET unit == Pow10(decimals - places)
    IN  unit > 1 /\ n % unit = unit \div 2

(***************************************************************************)
(* Enriched object data (the getObject response).  present = FALSE is the  *)
(* undefined of an object with no entry in enrichedObjects.  hasDisplay is *)
(* data.display.data being set; a content field is "" when it is absent    *)
(* (absent and empty are both falsy in the program).                       *)
(***************************************************************************)

NoFields == [name |-> "", nameType |-> "string", image_url |-> "", url |-> "",
             description |-> "", balance |-> ""]

NoObjectData == [present |-> FALSE, hasDisplay |-> FALSE, displayName |-> "",
                 hasContent |-> FALSE, fields |-> NoFields]

ContentFieldSets ==
    { NoFields,
      [NoFields EXCEPT !.name = "Hero #1"],
      [NoFields EXCEPT !.image_url = "https://img/1.png"],
      [NoFields EXCEPT !.url = "https://img/1"],
      [NoFields EXCEPT !.description = "A hero"],
      [NoFields EXCEPT !.balance = "1000000"],
      [NoFields EXCEPT !.name = "Hero #1", !.balance = "5"] }

\* the getObject responses the model draws from
ObjectDatas ==
    {NoObjectData} \cup
    { [present |-> TRUE, hasDisplay |-> d, displayName |-> IF d THEN n ELSE "",
       hasContent |-> c, fields |-> IF c THEN f ELSE NoFields] :
         d \in BOOLEAN, n \in {"", "Hero #7"}, c \in BOOLEAN, f \in ContentFieldSets }

\* the type identifiers the model draws from ("" is a change without objectType)
ObjectTypes ==
    { "",
      "0x2::coin::Coin<0x2::sui::SUI>",
      "0x2::coin::Coin<0xa::nft::GOLD>",
      "0x2::dynamic_field::Field<u64,0xa::nft::N>",
      "0x2::dynamic_object_field::Wrapper<0xa::x::K>",
      "0xa::nft::Hero",
      "0xa::MyNFT::Item",
      "0xa::card::Card",
      "0xa::Asset::Thing",
      "0xa::game_assets::Sword",
      "0xa::lic::License",
      "0xa::token::Token",
      "0xa::pool::Pool" }

(***************************************************************************)
(* Asset classifier                                                        *)
(***************************************************************************)

CoinPattern == "coin::Coin"

\* objectType?.includes('coin::Coin')
IsCoinType(type) == Includes(type, CoinPattern)

nftPatterns ==
    << "::nft::", "::NFT::", "::collectible::", "::asset::", "::token::Token",
       "::item::", "::agent::", "::character::", "::card::", "::badge::",
       "::license::", "::License" >>

\* content && (content.name || content.image_url || content.url || content.description)
HasNFTContentFields(data) ==
    /\ data.present
    /\ data.hasContent
    /\ \/ data.fields.name # ""
       \/ data.fields.image_url # ""
       \/ data.fields.url # ""
       \/ data.fields.description # ""

\* a classifier that looks at the display metadata before the coin pattern
isNFTObjectDisplayFirst(type, data) ==
    IF type = "" THEN FALSE
    ELSE IF data.present /\ data.hasDisplay THEN TRUE
    ELSE IF IsCoinType(type) THEN FALSE
    ELSE IF Includes(type, "::dynamic_field::") \/ Includes(type, "::dynamic_object_field::")
         THEN FALSE
    ELSE IF Includes(ToLowerCase(type), "nft") THEN TRUE
    ELSE IF \E k \in 1..Len(nftPatterns) : Includes(type, nftPatterns[k]) THEN TRUE
    ELSE HasNFTContentFields(data)

isNFTObject(type, data) ==
    IF type = "" THEN FALSE
    ELSE IF IsCoinType(type) THEN FALSE
    ELSE IF Includes(type, "::dynamic_field::") \/ Includes(type, "::dynamic_object_field::")
         THEN FALSE
    ELSE IF data.present /\ data.hasDisplay THEN TRUE
    ELSE IF Includes(ToLowerCase(type), "nft") THEN TRUE
    ELSE IF \E k \in 1..Len(nftPatterns) : Includes(type, nftPatterns[k]) THEN TRUE
    ELSE IF HasNFTContentFields(data) /\ ~Includes(type, "::dynamic_field::") THEN TRUE
    ELSE FALSE

(***************************************************************************)
(* Owners and addresses.  An owner descriptor of the raw transaction is a  *)
(* record [kind, addr]: kind "None" is a missing owner, "String" a bare    *)
(* string (the sender of a transferred change, or the string "Immutable"), *)
(* the others are the one-key objects of the RPC response.                 *)
(***************************************************************************)

NoOwner == [kind |-> "None", addr |-> ""]

StringOwner(a) == [kind |-> "String", addr |-> a]

AddressOwner(a) == [kind |-> "AddressOwner", addr |-> a]

ObjectOwner(a) == [kind |-> "ObjectOwner", addr |-> a]

SharedOwner == [kind |-> "Shared", addr |-> ""]

ImmutableOwner == StringOwner("Immutable")

\* address.slice(0, 6) + '...' + address.slice(-4) for addresses over 12 characters
truncateAddress(address) ==
    IF Len(address) <= 12 THEN address
    ELSE SubSeq(address, 1, 6) \o "..." \o SubSeq(address, Len(address) - 3, Len(address))

formatOwner(owner) ==
    IF owner.kind = "None" \/ (owner.kind = "String" /\ owner.addr = "") THEN "Unknown"
    ELSE IF owner.kind = "String" THEN truncateAddress(owner.addr)
    ELSE IF owner.kind = "AddressOwner" /\ owner.addr # "" THEN truncateAddress(owner.addr)
    ELSE IF owner.kind = "ObjectOwner" /\ owner.addr # ""
         THEN "Object(" \o truncateAddress(owner.addr) \o ")"
    ELSE IF owner.kind = "Shared" THEN "Shared"
    ELSE IF owner.kind = "Immutable" THEN "Immutable"
    ELSE "Unknown"

getFullAddress(owner) ==
    IF owner.kind = "None" \/ (owner.kind = "String" /\ owner.addr = "") THEN "Unknown"
    ELSE IF owner.kind = "String" THEN owner.addr
    ELSE IF owner.kind = "AddressOwner" /\ owner.addr # "" THEN owner.addr
    ELSE IF owner.kind = "ObjectOwner" /\ owner.addr # "" THEN owner.addr
    ELSE IF owner.kind = "Shared" THEN "Shared"
    ELSE IF owner.kind = "Immutable" THEN "Immutable"
    ELSE "Unknown"

\* the addresses the model draws from: 0x-prefixed hexadecimal account
\* addresses as the RPC returns them (shortened to 18 characters); the last
\* two differ only in the middle, which truncateAddress drops
AddressPool ==
    << "0xa1a1000000001111", "0xb2b2000000002222", "0xc3c3000000003333",
       "0xd4d4000000004444", "0xe5e5000000005555", "0xf6f6000000006666",
       "0x1717000000007777", "0x2828000000008888", "0x3939000000009999",
       "0x4a4a00000000aaaa", "0x7d7d0000aaaadddd", "0x7d7d0000bbbbdddd" >>

(***************************************************************************)
(* The address -> label Map of parseTransaction, kept as the sequence of   *)
(* its entries in insertion order (the iteration order of a Map)           *)
(***************************************************************************)

\* map.has(key)
MapHas(map, key) == \E i \in 1..Len(map) : map[i].key = key

\* map.get(key), for a key the map has
MapGet(map, key) == map[CHOOSE i \in 1..Len(map) : map[i].key = key].value

\* map.set(key, value): a new key is appended, an old key keeps its place
MapSet(map, key, value) ==
    IF MapHas(map, key)
    THEN [i \in 1..Len(map) |->
            IF map[i].key = key THEN [key |-> key, value |-> value] ELSE map[i]]
    ELSE Append(map, [key |-> key, value |-> value])

userLabels == <<"A", "B", "C", "D", "E", "F", "G", "H", "I", "J">>

\* a userIndex left over from the call before
StaleUserIndex == userIndex

\* line 352: let userIndex = 0
FreshUserIndex == 0

\* the addresses getOrCreateUserLabel returns unchanged and never stores
IsPlaceholderAddress(address) ==
    \/ address = "Unknown"
    \/ address = "Shared"
    \/ address = "Immutable"
    \/ StartsWith(address, "Object(")

\* a labeller that hands out a letter without advancing userIndex
getOrCreateUserLabelNoAdvance(map, index, address) ==
    IF IsPlaceholderAddress(address) \/ MapHas(map, address)
    THEN [map |-> map, index |-> index]
    ELSE IF index < Len(userLabels)
         THEN [map |-> MapSet(map, address, "User " \o userLabels[index + 1]), index |-> index]
         ELSE [map |-> MapSet(map, address, truncateAddress(address)), index |-> index]

\* a labeller that starts the alphabet again once it is used up
getOrCreateUserLabelWrapAround(map, index, address) ==
    IF IsPlaceholderAddress(address) \/ MapHas(map, address)
    THEN [map |-> map, index |-> index]
    ELSE [map |-> MapSet(map, address, "User " \o userLabels[(index % Len(userLabels)) + 1]),
          index |-> index + 1]

\* getOrCreateUserLabel(address) on the closure state (addressToUser, userIndex):
\* the state after the call; the returned label is LabelOf below
getOrCreateUserLabel(map, index, address) ==
    IF IsPlaceholderAddress(address) THEN [map |-> map, index |-> index]
    ELSE IF ~MapHas(map, address)
         THEN IF index < Len(userLabels)
              THEN [map |-> MapSet(map, address, "User " \o userLabels[index + 1]),
                    index |-> index + 1]
              ELSE [map |-> MapSet(map, address, truncateAddress(address)), index |-> index]
    ELSE [map |-> map, index |-> index]

\* what getOrCreateUserLabel(address) returns in the state after the call
LabelOf(map, address) ==
    IF IsPlaceholderAddress(address) THEN address ELSE MapGet(map, address)

(***************************************************************************)
(* The raw transaction record.  A change of objectChanges is a record      *)
(* [type, objectId, objectType, owner, sender, recipient]; owner is set on *)
(* created and mutated changes, sender and recipient on transferred ones.  *)
(***************************************************************************)

\* effects.gasUsed: absent, or the three amounts as decimal strings
NoGasUsed == [present |-> FALSE, computationCost |-> "", storageCost |-> "",
              storageRebate |-> ""]

GasUsed(computation, storage, rebate) ==
    [present |-> TRUE, computationCost |-> computation, storageCost |-> storage,
     storageRebate |-> rebate]

\* a command of transaction.data.transaction.transactions
MoveCall(package, module, function) ==
    [kind |-> "MoveCall", package |-> package, module |-> module, function |-> function]

TransferObjectsCommand ==
    [kind |-> "TransferObjects", package |-> "", module |-> "", function |-> ""]

NoTxBlock == [sender |-> "", objectChanges |-> <<>>, balanceChanges |-> <<>>,
              enrichedObjects |-> <<>>,
       gasUsed |-> NoGasUsed, transactions |-> <<>>]

CreatedChange(id, type, owner) ==
    [type |-> "created", objectId |-> id, objectType |-> type, owner |-> owner,
     sender |-> NoOwner, recipient |-> NoOwner]

MutatedChange(id, type, owner) ==
    [type |-> "mutated", objectId |-> id, objectType |-> type, owner |-> owner,
     sender |-> NoOwner, recipient |-> NoOwner]

DeletedChange(id, type) ==
    [type |-> "deleted", objectId |-> id, objectType |-> type, owner |-> NoOwner,
     sender |-> NoOwner, recipient |-> NoOwner]

TransferredChange(id, type, from, to) ==
    [type |-> "transferred", objectId |-> id, objectType |-> type, owner |-> NoOwner,
     sender |-> from, recipient |-> to]

BalanceChange(owner, coinType, amount) ==
    [owner |-> owner, coinType |-> coinType, amount |-> amount]

\* lines 634-649: tokenMappings
tokenMappings ==
    << [type |-> "0x2::sui::SUI", symbol |-> "SUI", decimals |-> 9],
       [type |-> "0x5d4b302506645c37ff133b98c4b50a5ae14841659738d6d733d59d0d217a93bf::coin::COIN",
        symbol |-> "USDC", decimals |-> 6],
       [type |-> "0xdba34672e30cb065b1f93e3ab55318768fd6fef66c15942c9f7cb846e2f900e7::usdc::USDC",
        symbol |-> "USDC", decimals |-> 6],
       [type |-> "0xc060006111016b8a020ad5b33834984a437aaa7d3c74c18e09a95d48aceab08c::coin::COIN",
        symbol |-> "USDT", decimals |-> 6],
       [type |-> "0xaf8cd5edc19c4512f4259f0bee101a40d41ebed738ade5874359610ef8eeced5::coin::COIN",
        symbol |-> "WETH", decimals |-> 8] >>

OrElse(str, default) == IF str = "" THEN default ELSE str

\* lines 632-665
getTokenInfoFromType(coinType) ==
    IF \E k \in 1..Len(tokenMappings) : tokenMappings[k].type = coinType
    THEN LET k == CHOOSE j \in 1..Len(tokenMappings) : tokenMappings[j].type = coinType
         IN  [symbol |-> tokenMappings[k].symbol, decimals |-> tokenMappings[k].decimals]
    ELSE LET lastPart == OrElse(ToUpperCase(AfterLast(coinType, "::")), "TOKEN")
         IN  [symbol |-> OrElse(RemoveFirst(RemoveFirst(lastPart, "_TOKEN"), "TOKEN"), "TOKEN"),
              decimals |-> 6]

\* coinType.match(/Coin<(.+)>/): the positions of the leftmost match, greedy
CoinMatchStarts(coinType) ==
    { i \in Occurrences(coinType, "Coin<") :
        \E j \in Occurrences(coinType, ">") : j >= i + 6 }

\* lines 667-684; amount "" and decimals 0 stand for undefined
extractCoinInfo(coinType, data) ==
    IF CoinMatchStarts(coinType) = {}
    THEN [amount |-> "", symbol |-> "Unknown", decimals |-> 9]
    ELSE LET i == MinOf(CoinMatchStarts(coinType))
             j == MaxOf(Occurrences(coinType, ">"))
             tokenInfo == getTokenInfoFromType(SubSeq(coinType, i + 5, j - 1))
         IN  [amount |-> IF data.present /\ data.hasContent THEN data.fields.balance ELSE "",
              symbol |-> tokenInfo.symbol,
              decimals |-> tokenInfo.decimals]

\* nftMetadata undefined
NoMetadata == [present |-> FALSE, name |-> "", nameType |-> "string"]

\* lines 743-803: the name of the metadata (the other members are not modelled)
extractNFTMetadata(data) ==
    IF ~data.present THEN NoMetadata
    ELSE IF ~data.hasDisplay /\ ~data.hasContent THEN NoMetadata
    ELSE IF data.hasDisplay /\ data.displayName # ""
         THEN [present |-> TRUE, name |-> data.displayName, nameType |-> "string"]
    ELSE IF data.hasContent /\ data.fields.name # ""
         THEN [present |-> TRUE, name |-> data.fields.name, nameType |-> data.fields.nameType]
    ELSE [present |-> TRUE, name |-> "NFT", nameType |-> "string"]

\* lines 805-828
extractTypeName(fullType) ==
    IF fullType = "" THEN "Object"
    ELSE IF isNFTObject(fullType, NoObjectData) THEN "NFT"
    ELSE IF Includes(fullType, "coin::Coin")
         THEN extractCoinInfo(fullType, NoObjectData).symbol \o " Coin"
    ELSE OrElse(BeforeFirst(AfterLast(fullType, "::"), "<"), "Object")

\* txBlock.enrichedObjects?.get(objectId)
EnrichedGet(tx, id) ==
    IF MapHas(tx.enrichedObjects, id) THEN MapGet(tx.enrichedObjects, id) ELSE NoObjectData

\* objectType || 'Unknown'
TypeOrUnknown(type) == IF type = "" THEN "Unknown" ELSE type

\* lines 260-276: the normalized form of a created change
NormalizeCreated(change, tx) ==
    [objectId |-> change.objectId,
     objectType |-> TypeOrUnknown(change.objectType),
     owner |-> formatOwner(change.owner),
     fullOwnerAddress |-> getFullAddress(change.owner),
     isNFT |-> isNFTObject(change.objectType, EnrichedGet(tx, change.objectId)),
     nftMetadata |-> IF isNFTObject(change.objectType, EnrichedGet(tx, change.objectId))
                     THEN extractNFTMetadata(EnrichedGet(tx, change.objectId))
                     ELSE NoMetadata]

\* lines 294-303: amount, tokenSymbol and tokenDecimals of a transferred change
\* ("" and 0 stand for undefined)
TransferredCoinInfo(change, tx) ==
    IF Includes(change.objectType, "coin::Coin")
    THEN extractCoinInfo(change.objectType, EnrichedGet(tx, change.objectId))
    ELSE [amount |-> "", symbol |-> "", decimals |-> 0]

\* a gas total that leaves the storage rebate out
TotalGasWithoutRebate(tx) ==
    IF tx.gasUsed.present
    THEN NumberToString(ParseNumber(tx.gasUsed.computationCost)
                        + ParseNumber(tx.gasUsed.storageCost))
    ELSE "0"

\* lines 246-250 and 447: totalGas.toString()
TotalGas(tx) ==
    IF tx.gasUsed.present
    THEN NumberToString(ParseNumber(tx.gasUsed.computationCost)
                        + ParseNumber(tx.gasUsed.storageCost)
                        - ParseNumber(tx.gasUsed.storageRebate))
    ELSE "0"

\* lines 333-347
PackageCallsOf(tx) ==
    LET calls == SelectSeq(tx.transactions, LAMBDA c : c.kind = "MoveCall")
    IN  [i \in 1..Len(calls) |->
            [package |-> calls[i].package, module |-> calls[i].module,
             function |-> calls[i].function,
             displayName |-> calls[i].module \o "::" \o calls[i].function]]

\* lines 292-329: the normalized form of a transferred change
NormalizeTransferred(change, tx) ==
    [objectId |-> change.objectId,
     objectType |-> TypeOrUnknown(change.objectType),
     from |-> formatOwner(change.sender),
     to |-> formatOwner(change.recipient),
     amount |-> TransferredCoinInfo(change, tx).amount,
     tokenSymbol |-> TransferredCoinInfo(change, tx).symbol,
     tokenDecimals |-> TransferredCoinInfo(change, tx).decimals,
     isNFT |-> isNFTObject(change.objectType, EnrichedGet(tx, change.objectId)),
     nftMetadata |-> IF isNFTObject(change.objectType, EnrichedGet(tx, change.objectId))
                     THEN extractNFTMetadata(EnrichedGet(tx, change.objectId))
                     ELSE NoMetadata]

\* the changes of one kind, in the order of objectChanges
ChangesOfType(changes, type) == SelectSeq(changes, LAMBDA c : c.type = type)

\* rawObjectChanges.find(c => c.objectId === id && c.type === 'transferred')
FindTransferred(changes, id) ==
    LET hits == { i \in 1..Len(changes) :
                    changes[i].objectId = id /\ changes[i].type = "transferred" }
    IN  changes[CHOOSE i \in hits : \A j \in hits : i <= j]

\* rawObjectChanges.find(c => c.objectId === id && c.type === 'created')
FindCreated(changes, id) ==
    LET hits == { i \in 1..Len(changes) :
                    changes[i].objectId = id /\ changes[i].type = "created" }
    IN  changes[CHOOSE i \in hits : \A j \in hits : i <= j]

\* lines 373-377: the created objects whose owner is handed to the labeller
CreatedOwnerIsMapped(created) ==
    /\ created.isNFT
    /\ created.fullOwnerAddress # ""
    /\ created.fullOwnerAddress # "Unknown"
    /\ created.fullOwnerAddress # "Shared"
    /\ created.fullOwnerAddress # "Immutable"
    /\ ~StartsWith(created.fullOwnerAddress, "Object(")

\* a transfer that maps the destination before the source
TransferAddressesDestinationFirst(change) ==
    (IF change.recipient.kind # "None" THEN <<getFullAddress(change.recipient)>> ELSE <<>>)
    \o (IF change.sender.kind # "None" THEN <<getFullAddress(change.sender)>> ELSE <<>>)

\* lines 391-398: the addresses one transfer hands to the labeller, in order
TransferAddresses(change) ==
    (IF change.sender.kind # "None" THEN <<getFullAddress(change.sender)>> ELSE <<>>)
    \o (IF change.recipient.kind # "None" THEN <<getFullAddress(change.recipient)>> ELSE <<>>)

RECURSIVE LabelAll(_, _, _)
\* getOrCreateUserLabel applied to each address of a sequence in turn
LabelAll(map, index, addresses) ==
    IF addresses = <<>> THEN [map |-> map, index |-> index]
    ELSE LET after == getOrCreateUserLabel(map, index, Head(addresses))
         IN  LabelAll(after.map, after.index, Tail(addresses))

(***************************************************************************)
(* The headline: generateAISummary (lines 982-1360).  data is the record   *)
(* parseTransaction hands over: sender, objectsCreated, objectsTransferred,*)
(* packageCalls, balanceChanges, addressToUser, rawObjectChanges.  The     *)
(* result is the returned sentence with the rule whose return statement    *)
(* produced it.                                                            *)
(***************************************************************************)

\* lines 986-992
getUserLabel(map, address) ==
    IF address = "" \/ address = "Unknown" THEN "Unknown"
    ELSE IF MapHas(map, address) THEN MapGet(map, address)
    ELSE truncateAddress(address)

\* `{{${label}}}`
Marker(label) == "{{" \o label \o "}}"

\* nft.nftMetadata?.name || ''
MetadataName(nft) == IF nft.nftMetadata.present THEN nft.nftMetadata.name ELSE ""

\* lines 1006-1015 (and 854-863); name.toLowerCase() needs a string
isRelevantNFT(nft) ==
    /\ MetadataName(nft) # ""
    /\ ~Includes(ToLowerCase(MetadataName(nft)), "unknown")
    /\ ~Includes(ToLowerCase(nft.objectType), "temp")
    /\ ~Includes(ToLowerCase(nft.objectType), "placeholder")

\* line 1011: name.toLowerCase is not a function, for a name that is not a string
isRelevantNFTRaises(nft) ==
    MetadataName(nft) # "" /\ nft.nftMetadata.nameType # "string"

\* nftMetadata?.name || 'NFT'
NameOrNFT(nft) == OrElse(MetadataName(nft), "NFT")

\* lines 1071-1079: the collection name of the first NFT of a group
CollectionName(nft) ==
    IF MetadataName(nft) = "" THEN "NFT"
    ELSE LET name == MetadataName(nft)
         IN  OrElse(Trim(BeforeFirst(name, "#")),
                    OrElse(Trim(StripTrailingNumber(name)), Trim(name)))

\* `${count} ${collectionName}${count > 1 ? 's' : ''}`
CountOf(count, noun) ==
    NumberToString(count) \o " " \o noun \o (IF count > 1 THEN "s" ELSE "")

RECURSIVE Grouped(_, _)
\* a Map<string, any[]> filled by going through items, keys[i] being the key of
\* items[i]
Grouped(items, keys) ==
    IF items = <<>> THEN <<>>
    ELSE LET n == Len(items)
             front == Grouped(SubSeq(items, 1, n - 1), SubSeq(keys, 1, n - 1))
         IN  MapSet(front, keys[n],
                    Append(IF MapHas(front, keys[n]) THEN MapGet(front, keys[n]) ELSE <<>>,
                           items[n]))

\* the first entry with the most items: recipients.sort(...)[0] of line 1057 (the
\* sort is stable) and the loops of lines 1128 and 1272
FirstLargest(entries) ==
    entries[CHOOSE i \in 1..Len(entries) :
               /\ \A j \in 1..Len(entries) : Len(entries[j].value) <= Len(entries[i].value)
               /\ \A j \in 1..(i - 1) : Len(entries[j].value) < Len(entries[i].value)]

\* lines 1033-1036: the address a transfer went to
TransferToAddr(data, transfer) ==
    getFullAddress(FindTransferred(data.rawObjectChanges, transfer.objectId).recipient)

RecipientMapOf(data, transfers) ==
    Grouped(transfers, [i \in 1..Len(transfers) |-> TransferToAddr(data, transfers[i])])

NoSentence == [rule |-> "none", text |-> ""]

Sentence(rule, text) == [rule |-> rule, text |-> text]

RelevantNFTs(objects) == SelectSeq(objects, LAMBDA o : o.isNFT /\ isRelevantNFT(o))

\* lines 1020-1026: the relevant NFT transfers of objects created in this
\* transaction
MintedAndTransferred(data) ==
    LET nftTransfers == RelevantNFTs(data.objectsTransferred)
        nftsCreated == RelevantNFTs(data.objectsCreated)
        createdNFTIds == { nftsCreated[i].objectId : i \in 1..Len(nftsCreated) }
    IN  SelectSeq(nftTransfers, LAMBDA t : t.objectId \in createdNFTIds)

\* lines 1029-1108: the NFTs created and transferred in this transaction
MintAndSendSentence(data) ==
    LET mintedAndTransferred == MintedAndTransferred(data)
        \* lines 1046-1050: the entry of the sender is deleted
        recipientMap == SelectSeq(RecipientMapOf(data, mintedAndTransferred),
                                  LAMBDA e : e.key # data.sender)
        recipients == SelectSeq(recipientMap, LAMBDA e : e.key # data.sender)
        senderLabel == getUserLabel(data.addressToUser, data.sender)
    IN  IF mintedAndTransferred = <<>> THEN NoSentence
        ELSE IF recipients # <<>>
        THEN LET primary == FirstLargest(recipients)
                 recipientLabel == getUserLabel(data.addressToUser, primary.key)
                 count == Len(primary.value)
             IN  IF count = 1
                 THEN Sentence("mintAndSend",
                               Marker(recipientLabel) \o " received "
                               \o NameOrNFT(primary.value[1])
                               \o " from " \o Marker(senderLabel))
                 ELSE Sentence("mintAndSend",
                               Marker(recipientLabel) \o " received "
                               \o CountOf(count, CollectionName(primary.value[1]))
                               \o " from " \o Marker(senderLabel))
        \* lines 1086-1107, read on the Map the loop of line 1046 has left
        ELSE IF MapHas(recipientMap, data.sender) /\ Len(recipientMap) = 1
        THEN LET transfers == MapGet(recipientMap, data.sender)
                 count == Len(transfers)
             IN  IF count = 1
                 THEN Sentence("selfMint",
                               Marker(senderLabel) \o " mints " \o NameOrNFT(transfers[1]))
                 ELSE Sentence("selfMint",
                               Marker(senderLabel) \o " mints "
                               \o CountOf(count, CollectionName(transfers[1])))
        ELSE NoSentence

\* lines 1110-1152: the NFT transfers, by recipient
NFTTransferSentence(data) ==
    LET nftTransfers == RelevantNFTs(data.objectsTransferred)
        recipientMap == RecipientMapOf(data, nftTransfers)
    IN  IF nftTransfers = <<>> THEN NoSentence
        ELSE LET largest == FirstLargest(recipientMap)
                 maxCount == Len(largest.value)
                 recipientLabel == getUserLabel(data.addressToUser, largest.key)
                 firstTransfer == largest.value[1]
                 fromAddr == FindTransferred(data.rawObjectChanges,
                                             firstTransfer.objectId).sender
                 fromLabel == IF fromAddr.kind = "None" \/ fromAddr = StringOwner("")
                              THEN "Unknown"
                              ELSE getUserLabel(data.addressToUser, getFullAddress(fromAddr))
             IN  IF largest.key = "" THEN NoSentence
                 ELSE IF maxCount = 1
                 THEN Sentence("nftTransfer",
                               Marker(recipientLabel) \o " receives "
                               \o NameOrNFT(firstTransfer)
                               \o " from " \o Marker(fromLabel))
                 ELSE Sentence("nftTransfer",
                               Marker(recipientLabel) \o " receives "
                               \o CountOf(maxCount,
                                          OrElse(Trim(BeforeFirst(MetadataName(firstTransfer),
                                                                  "#")), "NFT")))

\* toFixed(decimals === 6 ? 2 : 4)
PlacesFor(decimals) == IF decimals = 6 THEN 2 ELSE 4

\* lines 1156-1168: the first transfer of a coin other than SUI with an amount
CoinTransferSentence(data) ==
    LET coinTransfers ==
            SelectSeq(data.objectsTransferred,
                      LAMBDA t : t.tokenSymbol # "" /\ t.amount # "" /\ t.tokenSymbol # "SUI")
    IN  IF coinTransfers = <<>> THEN NoSentence
        ELSE LET transfer == coinTransfers[1]
                 amount == IF transfer.tokenDecimals # 0
                           THEN ToFixed(ParseNumber(transfer.amount), transfer.tokenDecimals,
                                        PlacesFor(transfer.tokenDecimals))
                           ELSE "?"
             IN  Sentence("coinTransfer",
                          Marker(transfer.from) \o " sends " \o amount \o " "
                          \o transfer.tokenSymbol \o " to " \o Marker(transfer.to))

\* change.coinType || '0x2::sui::SUI'
CoinTypeOf(change) == OrElse(change.coinType, "0x2::sui::SUI")

Abs(n) == IF n < 0 THEN 0 - n ELSE n

NoEntry == [present |-> FALSE, owner |-> NoOwner, amount |-> 0]

RECURSIVE TokenTransfers(_)
\* lines 1174-1192: per coin type, the negative change of the largest magnitude
\* (send) and the largest positive change (receive), the first one among equals
TokenTransfers(changes) ==
    IF changes = <<>> THEN <<>>
    ELSE LET n == Len(changes)
             front == TokenTransfers(SubSeq(changes, 1, n - 1))
             change == changes[n]
             coinType == CoinTypeOf(change)
             amount == ParseNumber(change.amount)
             old == IF MapHas(front, coinType) THEN MapGet(front, coinType)
                    ELSE [send |-> NoEntry, receive |-> NoEntry]
             entry == [present |-> TRUE, owner |-> change.owner, amount |-> amount]
             send == IF amount < 0 /\ (~old.send.present \/ Abs(amount) > Abs(old.send.amount))
                     THEN entry ELSE old.send
             receive == IF amount > 0 /\ (~old.receive.present \/ amount > old.receive.amount)
                        THEN entry ELSE old.receive
         IN  MapSet(front, coinType, [send |-> send, receive |-> receive])

\* line 1203: sendAmount < 0.1, of an amount in units of 10^-decimals
BelowTenth(amount, decimals) == amount < Pow10(decimals - 1)

\* a closeness test of half a percent
AmountsAreCloseHalfPercent(sendAmount, receiveAmount) ==
    Abs(sendAmount - receiveAmount) <= (sendAmount - 1) \div 200

\* line 1206: Math.abs(sendAmount - receiveAmount) < 0.01 * sendAmount
AmountsAreClose(sendAmount, receiveAmount) ==
    Abs(sendAmount - receiveAmount) <= (sendAmount - 1) \div 100

\* owner?.AddressOwner
AddressOwnerOf(owner) == IF owner.kind = "AddressOwner" THEN owner.addr ELSE ""

\* lines 1196-1216: the sentence of one coin type, none when the loop continues
PairSentence(data, coinType, pair) ==
    LET tokenInfo == getTokenInfoFromType(coinType)
        sendAmount == Abs(pair.send.amount)
        senderAddr == AddressOwnerOf(pair.send.owner)
        receiverAddr == AddressOwnerOf(pair.receive.owner)
    IN  IF ~pair.send.present \/ ~pair.receive.present THEN NoSentence
        ELSE IF tokenInfo.symbol = "SUI" /\ BelowTenth(sendAmount, tokenInfo.decimals)
        THEN NoSentence
        ELSE IF ~AmountsAreClose(sendAmount, pair.receive.amount) THEN NoSentence
        ELSE IF senderAddr = "" \/ receiverAddr = "" \/ senderAddr = receiverAddr
        THEN NoSentence
        ELSE Sentence("balancePair",
                      Marker(getUserLabel(data.addressToUser, senderAddr)) \o " sends "
                      \o ToFixed(sendAmount, tokenInfo.decimals, PlacesFor(tokenInfo.decimals))
                      \o " " \o tokenInfo.symbol \o " to "
                      \o Marker(getUserLabel(data.addressToUser, receiverAddr)))

\* lines 1172-1218: the first coin type, in the order of first appearance, that
\* gives a sentence
BalancePairSentence(data) ==
    LET pairs == TokenTransfers(data.balanceChanges)
        hits == { i \in 1..Len(pairs) :
                    PairSentence(data, pairs[i].key, pairs[i].value) # NoSentence }
    IN  IF hits = {} THEN NoSentence
        ELSE LET i == MinOf(hits) IN PairSentence(data, pairs[i].key, pairs[i].value)

\* lines 1221-1237
OtherTransferSentence(data) ==
    IF data.objectsTransferred = <<>> THEN NoSentence
    ELSE LET transfer == data.objectsTransferred[1]
             typeName == extractTypeName(transfer.objectType)
             nonCoinTransfers == SelectSeq(data.objectsTransferred, LAMBDA t : t.tokenSymbol = "")
         IN  IF typeName = "NFT" \/ Includes(ToLowerCase(typeName), "nft")
             THEN Sentence("otherTransfer",
                           Marker(transfer.from) \o " transfers an NFT to "
                           \o Marker(transfer.to))
             ELSE IF Len(data.objectsTransferred) = 1 /\ ~Includes(typeName, "Coin")
             THEN Sentence("otherTransfer",
                           Marker(transfer.from) \o " transfers a " \o typeName \o " to "
                           \o Marker(transfer.to))
             ELSE IF nonCoinTransfers # <<>>
             THEN Sentence("otherTransfer",
                           Marker(transfer.from) \o " transfers "
                           \o CountOf(Len(nonCoinTransfers), "object") \o " to "
                           \o Marker(transfer.to))
             ELSE NoSentence

\* lines 1250-1265: the created NFTs of someone else than the sender, by owner
CreatedForOthers(data, nfts) ==
    LET ownerAddr(n) == getFullAddress(FindCreated(data.rawObjectChanges, n.objectId).owner)
        owned == SelectSeq(nfts, LAMBDA n :
                    /\ FindCreated(data.rawObjectChanges, n.objectId).owner.kind # "None"
                    /\ ownerAddr(n) # ""
                    /\ ownerAddr(n) # "Unknown"
                    /\ ownerAddr(n) # data.sender)
    IN  Grouped(owned, [i \in 1..Len(owned) |-> ownerAddr(owned[i])])

\* lines 1241-1326
CreatedSentence(data) ==
    IF data.objectsCreated = <<>> THEN NoSentence
    ELSE LET senderLabel == getUserLabel(data.addressToUser, data.sender)
             nfts == RelevantNFTs(data.objectsCreated)
             recipientMap == CreatedForOthers(data, nfts)
         IN  IF nfts # <<>> /\ recipientMap # <<>>
             THEN LET largest == FirstLargest(recipientMap)
                      maxCount == Len(largest.value)
                      recipientLabel == getUserLabel(data.addressToUser, largest.key)
                  IN  IF maxCount = 1
                      THEN Sentence("createdForOther",
                                    Marker(recipientLabel) \o " received "
                                    \o NameOrNFT(largest.value[1])
                                    \o " from " \o Marker(senderLabel))
                      ELSE Sentence("createdForOther",
                                    Marker(recipientLabel) \o " received "
                                    \o CountOf(maxCount, CollectionName(largest.value[1]))
                                    \o " from " \o Marker(senderLabel))
             ELSE IF Len(nfts) = 1
             THEN Sentence("minted", Marker(senderLabel) \o " minted " \o NameOrNFT(nfts[1]))
             ELSE IF nfts # <<>>
             THEN Sentence("minted",
                           Marker(senderLabel) \o " minted "
                           \o CountOf(Len(nfts), CollectionName(nfts[1])))
             ELSE IF Len(data.objectsCreated) = 1
             THEN Sentence("created",
                           Marker(senderLabel) \o " creates a "
                           \o extractTypeName(data.objectsCreated[1].objectType))
             ELSE Sentence("created",
                           Marker(senderLabel) \o " creates "
                           \o NumberToString(Len(data.objectsCreated)) \o " new objects")

\* lines 1334-1354: the phrase of a function name
CallPhrase(call) ==
    IF Includes(call.function, "mint") THEN " mints a new token or NFT"
    ELSE IF Includes(call.function, "swap") THEN " performs a token swap"
    ELSE IF Includes(call.function, "stake") THEN " stakes tokens"
    ELSE IF Includes(call.function, "claim") THEN " claims rewards or tokens"
    ELSE IF Includes(call.function, "deposit") THEN " deposits into a protocol"
    ELSE IF Includes(call.function, "withdraw") THEN " withdraws from a protocol"
    ELSE " calls " \o call.module \o "::" \o call.function

\* lines 1329-1355
ContractCallSentence(data) ==
    IF data.packageCalls = <<>> THEN NoSentence
    ELSE Sentence("contractCall",
                  Marker(getUserLabel(data.addressToUser, data.sender))
                  \o CallPhrase(data.packageCalls[1]))

\* lines 1358-1359
FallbackSentence(data) ==
    Sentence("fallback",
             Marker(getUserLabel(data.addressToUser, data.sender))
             \o " executes a transaction on Sui")

\* the first of the sentences that is one
FirstSentence(sentences) ==
    sentences[MinOf({ i \in 1..Len(sentences) : sentences[i] # NoSentence })]

\* lines 1017-1359: the rules in the order the function goes through them
AISummaryResult(data) ==
    FirstSentence(<< MintAndSendSentence(data),
                     NFTTransferSentence(data),
                     CoinTransferSentence(data),
                     BalancePairSentence(data),
                     OtherTransferSentence(data),
                     CreatedSentence(data),
                     ContractCallSentence(data),
                     FallbackSentence(data) >>)

generateAISummary(data) == AISummaryResult(data).text

(***************************************************************************)
(* The bullet summary (generateSummary, lines 487-630) and the breakdown   *)
(* (generateAIBreakdown, lines 830-980), each the sequence of its lines.   *)
(***************************************************************************)

RECURSIVE Join(_, _)
\* array.join(separator) of an array of strings
Join(strs, separator) ==
    IF strs = <<>> THEN ""
    ELSE IF Len(strs) = 1 THEN strs[1]
    ELSE strs[1] \o separator \o Join(Tail(strs), separator)

RECURSIVE Flatten(_)
\* the lines pushed by a loop, given the lines of each iteration
Flatten(seqs) == IF seqs = <<>> THEN <<>> ELSE Head(seqs) \o Flatten(Tail(seqs))

\* lines 544-556: the labels of the two ends of a transfer
TransferEndLabels(data, transfer) ==
    LET rawChange == FindTransferred(data.rawObjectChanges, transfer.objectId)
    IN  [from |-> getUserLabel(data.addressToUser, getFullAddress(rawChange.sender)),
         to |-> getUserLabel(data.addressToUser, getFullAddress(rawChange.recipient))]

\* lines 543-560
NFTTransferLine(data, transfer) ==
    Marker(TransferEndLabels(data, transfer).to) \o " received " \o NameOrNFT(transfer)
    \o " from " \o Marker(TransferEndLabels(data, transfer).from)

\* lines 567-591
OtherTransferLine(data, transfer) ==
    LET ends == TransferEndLabels(data, transfer)
    IN  IF transfer.tokenSymbol # "" /\ transfer.amount # "" /\ transfer.tokenDecimals # 0
        THEN Marker(ends.from) \o " transferred "
             \o ToFixed(ParseNumber(transfer.amount), transfer.tokenDecimals,
                        PlacesFor(transfer.tokenDecimals))
             \o " " \o transfer.tokenSymbol \o " to " \o Marker(ends.to)
        ELSE Marker(ends.from) \o " transferred " \o extractTypeName(transfer.objectType)
             \o " to " \o Marker(ends.to)

\* a noise threshold of 0.001
BelowThousandth(amount, decimals) == Abs(amount) < Pow10(decimals - 3)

\* line 617: Math.abs(amount) < 0.01, of an amount in units of 10^-decimals
BelowHundredth(amount, decimals) == Abs(amount) < Pow10(decimals - 2)

\* lines 608-626: the line of one balance change, none for a skipped one
BalanceLine(data, change) ==
    LET tokenInfo == getTokenInfoFromType(CoinTypeOf(change))
        amount == ParseNumber(change.amount)
        addr == OrElse(AddressOwnerOf(change.owner), "Unknown")
    IN  IF tokenInfo.symbol = "SUI" /\ BelowHundredth(amount, tokenInfo.decimals) THEN <<>>
        ELSE << Marker(getUserLabel(data.addressToUser, addr))
                \o (IF amount > 0 THEN " received " ELSE " sent ")
                \o ToFixed(Abs(amount), tokenInfo.decimals, PlacesFor(tokenInfo.decimals))
                \o " " \o tokenInfo.symbol >>

\* lines 606-627
BalanceLines(data) ==
    LET shown == Slice(data.balanceChanges, 5)
    IN  Flatten([i \in 1..Len(shown) |-> BalanceLine(data, shown[i])])

\* lines 487-630: summary
generateSummary(data) ==
    LET nftsCreated == SelectSeq(data.objectsCreated, LAMBDA o : o.isNFT)
        othersCreated == SelectSeq(data.objectsCreated, LAMBDA o : ~o.isNFT)
        nftTransfers == SelectSeq(data.objectsTransferred, LAMBDA t : t.isNFT)
        otherTransfers == SelectSeq(data.objectsTransferred, LAMBDA t : ~t.isNFT)
        shownNFTs == Slice(nftTransfers, 3)
        shownOthers == Slice(otherTransfers, 3)
    IN  << Marker(getUserLabel(data.addressToUser, data.sender)) \o " initiated the transaction" >>
        \o (IF data.packageCalls # <<>>
            THEN << "Called functions: "
                    \o Join([i \in 1..Len(data.packageCalls) |-> data.packageCalls[i].displayName],
                            ", ") >>
            ELSE <<>>)
        \o (IF nftsCreated # <<>>
            THEN << Marker(CountOf(Len(nftsCreated), "NFT")) \o " created" >> ELSE <<>>)
        \o (IF othersCreated # <<>>
            THEN << Marker(CountOf(Len(othersCreated), "object")) \o " created" >> ELSE <<>>)
        \o [i \in 1..Len(shownNFTs) |-> NFTTransferLine(data, shownNFTs[i])]
        \o (IF Len(nftTransfers) > 3
            THEN << "  ... and " \o NumberToString(Len(nftTransfers) - 3)
                    \o " more NFT transfers" >>
            ELSE <<>>)
        \o [i \in 1..Len(shownOthers) |-> OtherTransferLine(data, shownOthers[i])]
        \o (IF data.objectsMutated # <<>>
            THEN << Marker(CountOf(Len(data.objectsMutated), "object")) \o " modified" >>
            ELSE <<>>)
        \o (IF data.objectsDeleted # <<>>
            THEN << CountOf(Len(data.objectsDeleted), "object") \o " deleted" >> ELSE <<>>)
        \o BalanceLines(data)

RECURSIVE userAddressMapOf(_)
\* lines 491-494 and 455: userAddressMap, the label -> address Map
userAddressMapOf(map) ==
    IF map = <<>> THEN <<>>
    ELSE MapSet(userAddressMapOf(SubSeq(map, 1, Len(map) - 1)),
                map[Len(map)].value, map[Len(map)].key)

\* lines 870-875
IsImportantCall(call) ==
    /\ ~Includes(call.function, "transfer")
    /\ ~Includes(call.function, "split_coin")
    /\ ~Includes(call.function, "pay")

\* lines 911 and 918: a name that looks like an object id
LooksLikeObjectId(name) == StartsWith(name, "0x") /\ Len(name) > 50

\* lines 909-925: the line of one collection, none for a skipped one
MintedLine(entry) ==
    IF LooksLikeObjectId(entry.key) THEN <<>>
    ELSE IF Len(entry.value) = 1
    THEN IF LooksLikeObjectId(NameOrNFT(entry.value[1])) THEN <<>>
         ELSE << Marker(NameOrNFT(entry.value[1])) \o " was minted" >>
    ELSE << Marker(CountOf(Len(entry.value), entry.key)) \o " were minted" >>

\* lines 933-950: the NFT transfers that do not end at the sender, by
\* `${fromLabel}->${toLabel}`
TransferMapOf(data, nftTransfers) ==
    LET kept == SelectSeq(nftTransfers, LAMBDA t : TransferToAddr(data, t) # data.sender)
    IN  Grouped(kept, [i \in 1..Len(kept) |->
                          TransferEndLabels(data, kept[i]).from \o "->"
                          \o TransferEndLabels(data, kept[i]).to])

\* lines 953-970
TransferredLine(data, entry) ==
    LET ends == TransferEndLabels(data, entry.value[1])
        what == IF Len(entry.value) = 1 THEN NameOrNFT(entry.value[1])
                ELSE CountOf(Len(entry.value), CollectionName(entry.value[1]))
    IN  Marker(what) \o " transferred from " \o Marker(ends.from) \o " to " \o Marker(ends.to)

\* lines 830-980: aiBreakdown
generateAIBreakdown(data) ==
    LET senderLabel == getUserLabel(data.addressToUser, data.sender)
        importantCalls == Slice(SelectSeq(data.packageCalls, IsImportantCall), 3)
        nftsCreated == RelevantNFTs(data.objectsCreated)
        nftTransfers == RelevantNFTs(data.objectsTransferred)
        collectionMap == Grouped(nftsCreated,
                                 [i \in 1..Len(nftsCreated) |-> CollectionName(nftsCreated[i])])
        transferMap == TransferMapOf(data, nftTransfers)
        otherObjects == SelectSeq(data.objectsCreated, LAMBDA o : ~o.isNFT)
    IN  [i \in 1..Len(importantCalls) |->
            Marker(senderLabel) \o " called "
            \o Marker(importantCalls[i].module \o "::" \o importantCalls[i].function)]
        \o Flatten([i \in 1..Len(collectionMap) |-> MintedLine(collectionMap[i])])
        \o [i \in 1..Len(transferMap) |-> TransferredLine(data, transferMap[i])]
        \o (IF Len(otherObjects) > 3
            THEN << Marker(CountOf(Len(otherObjects), "object")) \o " created" >> ELSE <<>>)

\* lines 885-886 (and 1020-1021, 1245): obj.isNFT && isRelevantNFT(obj) raises on
\* one of the created or transferred objects
SynthesisRaises(data) ==
    \/ \E i \in 1..Len(data.objectsCreated) :
          data.objectsCreated[i].isNFT /\ isRelevantNFTRaises(data.objectsCreated[i])
    \/ \E i \in 1..Len(data.objectsTransferred) :
          data.objectsTransferred[i].isNFT /\ isRelevantNFTRaises(data.objectsTransferred[i])

\* the TypeError of line 859
NotAFunctionMessage == "name.toLowerCase is not a function"

(***************************************************************************)
(* SpecClassify: isNFTObject applied to every (type, data) of the pools    *)
(***************************************************************************)

ClassifierIdle ==
    /\ objectType = ""
    /\ objectData = NoObjectData
    /\ isNFT = FALSE

LabelerIdle ==
    /\ addressToUser = <<>>
    /\ userIndex = 0
    /\ sender = "Unknown"
    /\ encounter = <<>>

ParseIdle ==
    /\ txBlock = NoTxBlock
    /\ objectsCreated = <<>>
    /\ objectsTransferred = <<>>
    /\ loopIndex = 0

EnrichIdle ==
    /\ selected = <<>>
    /\ getObjectCalls = <<>>
    /\ fetchState = <<>>
    /\ fetchData = <<>>
    /\ slots = <<>>
    /\ timers = {}
    /\ firstOutcome = <<>>
    /\ overallFired = FALSE
    /\ completedAtOverall = {}

SynthIdle ==
    /\ gasUsed = ""
    /\ packageCalls = <<>>
    /\ summary = <<>>
    /\ aiSummary = ""
    /\ aiBreakdown = <<>>

NoRun == [done |-> FALSE]

HistoryIdle ==
    /\ delays = <<>>
    /\ attemptErrors = <<>>
    /\ firstRun = NoRun
    /\ activeCalls = <<>>
    /\ fetchLog = <<>>

FetchIdle ==
    /\ isDev = FALSE
    /\ client = ""
    /\ attempt = 0
    /\ attemptedFallback = FALSE
    /\ depth = 0
    /\ switches = 0
    /\ restarts = 0
    /\ probeIndex = 0
    /\ lastError = ""
    /\ outcome = [kind |-> "none", message |-> ""]

InitClassify ==
    /\ pc = "classify"
    /\ objectType \in ObjectTypes
    /\ objectData \in ObjectDatas
    /\ isNFT = FALSE
    /\ LabelerIdle
    /\ ParseIdle
    /\ EnrichIdle
    /\ FetchIdle
    /\ SynthIdle
    /\ HistoryIdle

Classify ==
    /\ pc = "classify"
    /\ isNFT' = isNFTObject(objectType, objectData)
    /\ pc' = "classified"
    /\ UNCHANGED <<objectType, objectData, enrichVars, fetchVars, labelVars, parseVars, synthVars,
                   historyVars>>

NextClassify == Classify

SpecClassify == InitClassify /\ [][NextClassify]_vars

\* C10: an object whose type identifier matches the coin pattern is never
\* classified as NFT, whatever the enriched data carries (display metadata,
\* name, image_url, url, description).
C10_CoinNeverNFT ==
    (pc = "classified" /\ IsCoinType(objectType)) => isNFT = FALSE

\* a coin type classified with display metadata and NFT-like content present
C10_Witness ==
    /\ pc = "classified"
    /\ IsCoinType(objectType)
    /\ objectData.present /\ objectData.hasDisplay
    /\ HasNFTContentFields(objectData)
    /\ isNFT = FALSE

\* the substrings of the type rule as the specification lists them
C23_CuratedSubstrings ==
    << "nft", "collectible", "asset", "item", "agent", "character", "card", "badge",
       "license" >>

\* the six-rule decision procedure, first match wins
C23_SixRules(type, data) ==
    IF IsCoinType(type) THEN FALSE
    ELSE IF Includes(type, "::dynamic_field::") \/ Includes(type, "::dynamic_object_field::")
         THEN FALSE
    ELSE IF data.present /\ data.hasDisplay THEN TRUE
    ELSE IF \E k \in 1..Len(C23_CuratedSubstrings) :
                Includes(ToLowerCase(type), C23_CuratedSubstrings[k])
         THEN TRUE
    ELSE HasNFTContentFields(data)

\* C23: isNFTObject equals the six-rule first-match-wins procedure for every type
\* identifier and enriched data: coin pattern, dynamic-field pattern, display
\* metadata, a curated substring in the type compared case-insensitively, NFT-like
\* content fields, otherwise not an NFT.  (A change without a type identifier is
\* left aside: line 687 answers false for it before any rule.)
C23_EqualsSixRules ==
    pc = "classified" /\ objectType # "" => isNFT = C23_SixRules(objectType, objectData)

(***************************************************************************)
(* SpecLabeler: getOrCreateUserLabel over sequences of visited addresses.  *)
(* The sender is mapped first (line 369); every later visit is an address  *)
(* seen before, a placeholder, or a new address of the pool (the first or  *)
(* the last one not yet seen, so that the encounter order varies).         *)
(***************************************************************************)

Range(seq) == { seq[i] : i \in 1..Len(seq) }

\* the addresses that take a label: not a placeholder string
Labelable(address) ==
    /\ address \notin {"Unknown", "Shared", "Immutable"}
    /\ ~StartsWith(address, "Object(")

NewAddresses ==
    LET unseen == { i \in 1..Len(AddressPool) : AddressPool[i] \notin Range(encounter) }
    IN  IF unseen = {} THEN {}
        ELSE { AddressPool[CHOOSE i \in unseen : \A j \in unseen : i <= j],
               AddressPool[CHOOSE i \in unseen : \A j \in unseen : i >= j] }

\* the history variable: the labelable addresses in first-encounter order
Encountered(enc, address) ==
    IF Labelable(address) /\ address \notin Range(enc) THEN Append(enc, address) ELSE enc

RECURSIVE EncounteredAll(_, _)
EncounteredAll(enc, addresses) ==
    IF addresses = <<>> THEN enc
    ELSE EncounteredAll(Encountered(enc, Head(addresses)), Tail(addresses))

InitLabeler ==
    /\ pc = "mapSender"
    /\ ClassifierIdle
    /\ LabelerIdle
    /\ ParseIdle
    /\ EnrichIdle
    /\ FetchIdle
    /\ SynthIdle
    /\ HistoryIdle

\* line 369: getOrCreateUserLabel(sender)
MapSender ==
    /\ pc = "mapSender"
    /\ \E s \in NewAddresses \cup {"Unknown"} :
         LET after == getOrCreateUserLabel(addressToUser, userIndex, s)
         IN  /\ sender' = s
             /\ addressToUser' = after.map
             /\ userIndex' = after.index
             /\ encounter' = Encountered(encounter, s)
    /\ pc' = "discover"
    /\ UNCHANGED <<clsVars, enrichVars, fetchVars, parseVars, synthVars, historyVars>>

\* any later call of getOrCreateUserLabel (lines 378, 393, 397, 404)
Visit ==
    /\ pc = "discover"
    /\ \E a \in NewAddresses \cup Range(encounter) \cup {"Unknown", "Shared", "Immutable"} :
         LET after == getOrCreateUserLabel(addressToUser, userIndex, a)
         IN  /\ addressToUser' = after.map
             /\ userIndex' = after.index
             /\ encounter' = Encountered(encounter, a)
    /\ UNCHANGED <<pc, sender, clsVars, enrichVars, fetchVars, parseVars, synthVars, historyVars>>

NextLabeler == MapSender \/ Visit

SpecLabeler == InitLabeler /\ [][NextLabeler]_vars

\* the pseudonyms of the specification, in order
Pseudonyms ==
    << "User A", "User B", "User C", "User D", "User E",
       "User F", "User G", "User H", "User I", "User J" >>

\* the entries the Map holds for an address
EntriesOf(map, address) == { i \in 1..Len(map) : map[i].key = address }

C7_LabelsAssigned ==
    /\ \A k \in 1..Len(encounter) :
         /\ Cardinality(EntriesOf(addressToUser, encounter[k])) = 1
         /\ k <= Len(Pseudonyms) => MapGet(addressToUser, encounter[k]) = Pseudonyms[k]
    /\ \A j, k \in 1..Len(encounter) :
         (j <= Len(Pseudonyms) /\ k <= Len(Pseudonyms) /\ j # k)
            => MapGet(addressToUser, encounter[j]) # MapGet(addressToUser, encounter[k])
    /\ (pc = "discover" /\ sender # "Unknown") => MapGet(addressToUser, sender) = "User A"
    /\ \A i \in 1..Len(addressToUser) : addressToUser[i].key \in Range(encounter)

C7_LabelsStable ==
    \A i \in 1..Len(addressToUser) :
        /\ MapHas(addressToUser', addressToUser[i].key)
        /\ MapGet(addressToUser', addressToUser[i].key) = addressToUser[i].value

\* C7: within one run every labelable address has exactly one label, which
\* never changes; the first 10 distinct labelable addresses get 'User A' ..
\* 'User J' in first-encounter order (the sender, when known, 'User A'), and
\* no two of them share a pseudonym.
C7_PseudonymsInEncounterOrder ==
    [](C7_LabelsAssigned) /\ [][C7_LabelsStable]_vars

\* all ten pseudonyms are handed out and an eleventh address has been seen
C7_Witness ==
    /\ pc = "discover"
    /\ sender # "Unknown"
    /\ Len(encounter) > Len(Pseudonyms)
    /\ MapGet(addressToUser, encounter[Len(Pseudonyms)]) = "User J"

\* C8: an address met after the 10 pseudonyms are used up is stored with
\* its truncated address, and that string is none of the pseudonyms.
C8_FallbackNeverAPseudonym ==
    \A k \in 1..Len(encounter) :
        k > Len(Pseudonyms) =>
            /\ MapGet(addressToUser, encounter[k]) = truncateAddress(encounter[k])
            /\ MapGet(addressToUser, encounter[k]) \notin Range(Pseudonyms)
            /\ \A j \in 1..Len(addressToUser) :
                 addressToUser[j].key # encounter[k]
                    => ~(addressToUser[j].value \in Range(Pseudonyms)
                         /\ addressToUser[j].value = MapGet(addressToUser, encounter[k]))

\* two addresses beyond the tenth hold their truncated addresses
C8_Witness ==
    /\ Len(encounter) >= Len(Pseudonyms) + 2
    /\ MapGet(addressToUser, encounter[Len(Pseudonyms) + 1]) = "0x7d7d...dddd"

\* userAddressMap maps the label of every address back to that address and has
\* as many entries as the address -> label Map
C30_IsInverseOf(inverse, map) ==
    /\ \A i \in 1..Len(map) :
         /\ MapHas(inverse, map[i].value)
         /\ MapGet(inverse, map[i].value) = map[i].key
    /\ Len(inverse) = Len(map)

\* the inverse is exact while the labels are pseudonyms only
C30_InverseOfPseudonyms ==
    Len(addressToUser) <= Len(Pseudonyms) =>
        C30_IsInverseOf(userAddressMapOf(addressToUser), addressToUser)

\* C30: the userAddressMap built from the address -> label Map is its exact
\* inverse, with the same number of entries, also when addresses beyond the tenth
\* are labelled by their truncated address: no two addresses share a label.
C30_UserAddressMapIsInverse ==
    C30_IsInverseOf(userAddressMapOf(addressToUser), addressToUser)

(***************************************************************************)
(* SpecParse: the address discovery of parseTransaction (lines 238-406) on *)
(* every raw transaction of a bounded family.  The function is synchronous;*)
(* its for loops are taken one iteration at a time.                        *)
(***************************************************************************)

MaxChanges == 2

\* the object id of the change at position i of objectChanges (i < 100)
ObjectIdAt(i) ==
    "0x0b" \o SubSeq(DecimalDigits, (i \div 10) + 1, (i \div 10) + 1)
           \o SubSeq(DecimalDigits, (i % 10) + 1, (i % 10) + 1)

NftType == "0xa::nft::Hero"

PlainType == "0xa::pool::Pool"

DisplayData == [present |-> TRUE, hasDisplay |-> TRUE, displayName |-> "Hero #7",
                hasContent |-> FALSE, fields |-> NoFields]

\* the changes a transaction of the family is made of (objectId is set by position)
ParseChangeShapes ==
    { CreatedChange("", t, o) :
        t \in {NftType, PlainType},
        o \in {AddressOwner(AddressPool[2]), ObjectOwner(AddressPool[3]), SharedOwner} }
    \cup
    { TransferredChange("", NftType, StringOwner(f), o) :
        f \in {AddressPool[1], AddressPool[3]},
        o \in {AddressOwner(AddressPool[2]), AddressOwner(AddressPool[4]), SharedOwner} }
    \cup
    { MutatedChange("", PlainType, AddressOwner(AddressPool[4])), DeletedChange("", PlainType) }

SeqsUpTo(S, n) == UNION { [1..m -> S] : m \in 0..n }

WithObjectIds(changes) ==
    [i \in 1..Len(changes) |-> [changes[i] EXCEPT !.objectId = ObjectIdAt(i)]]

SuiType == "0x2::sui::SUI"

ParseBalanceChanges ==
    { <<>>,
      <<BalanceChange(AddressOwner(AddressPool[4]), SuiType, "-1000000000")>>,
      <<BalanceChange(ObjectOwner(AddressPool[3]), SuiType, "5"),
        BalanceChange(AddressOwner(AddressPool[4]), SuiType, "250000000")>>,
      <<BalanceChange(AddressOwner(AddressPool[2]), SuiType, "-1000000000"),
        BalanceChange(AddressOwner(AddressPool[1]), SuiType, "995000000")>> }

\* an enrichment that returned display metadata for every created object
DisplayForCreated(changes) ==
    LET created == ChangesOfType(changes, "created")
    IN  [i \in 1..Len(created) |-> [key |-> created[i].objectId, value |-> DisplayData]]

ParseTxBlocks ==
    { [sender |-> s, objectChanges |-> WithObjectIds(c), balanceChanges |-> b,
       enrichedObjects |-> IF e THEN DisplayForCreated(WithObjectIds(c)) ELSE <<>>,
       gasUsed |-> NoGasUsed, transactions |-> <<>>] :
        s \in {AddressPool[1], ""},
        c \in SeqsUpTo(ParseChangeShapes, MaxChanges),
        b \in ParseBalanceChanges,
        e \in BOOLEAN }

InitParse ==
    /\ pc = "normalize"
    /\ txBlock \in ParseTxBlocks
    /\ objectsCreated = <<>>
    /\ objectsTransferred = <<>>
    /\ loopIndex = 0
    /\ ClassifierIdle
    /\ LabelerIdle
    /\ EnrichIdle
    /\ FetchIdle
    /\ SynthIdle
    /\ HistoryIdle

\* lines 239-352: the sender, the gas total, the normalized change collections,
\* the package calls and the empty label Map
Normalize ==
    /\ pc = "normalize"
    /\ sender' = IF txBlock.sender = "" THEN "Unknown" ELSE txBlock.sender
    /\ objectsCreated' =
         LET cs == ChangesOfType(txBlock.objectChanges, "created")
         IN  [i \in 1..Len(cs) |-> NormalizeCreated(cs[i], txBlock)]
    /\ objectsTransferred' =
         LET ts == ChangesOfType(txBlock.objectChanges, "transferred")
         IN  [i \in 1..Len(ts) |-> NormalizeTransferred(ts[i], txBlock)]
    /\ gasUsed' = TotalGas(txBlock)
    /\ packageCalls' = PackageCallsOf(txBlock)
    /\ addressToUser' = <<>>
    /\ userIndex' = FreshUserIndex
    /\ encounter' = <<>>
    /\ pc' = "sender"
    /\ UNCHANGED <<clsVars, enrichVars, fetchVars, txBlock, loopIndex, summary, aiSummary,
                   aiBreakdown, historyVars>>

\* the state after getOrCreateUserLabel was called on each of the addresses
LabelStep(addresses) ==
    LET after == LabelAll(addressToUser, userIndex, addresses)
    IN  /\ addressToUser' = after.map
        /\ userIndex' = after.index
        /\ encounter' = EncounteredAll(encounter, addresses)

\* lines 368-369
ParseMapSender ==
    /\ pc = "sender"
    /\ LabelStep(<<sender>>)
    /\ pc' = "created"
    /\ loopIndex' = 1
    /\ UNCHANGED <<clsVars, enrichVars, fetchVars, sender, txBlock, objectsCreated, objectsTransferred, synthVars,
                   historyVars>>

\* lines 372-380, one iteration
MapCreatedOwner ==
    /\ pc = "created"
    /\ loopIndex <= Len(objectsCreated)
    /\ LabelStep(IF CreatedOwnerIsMapped(objectsCreated[loopIndex])
                 THEN <<objectsCreated[loopIndex].fullOwnerAddress>> ELSE <<>>)
    /\ loopIndex' = loopIndex + 1
    /\ UNCHANGED <<pc, clsVars, enrichVars, fetchVars, sender, txBlock, objectsCreated, objectsTransferred, synthVars,
                   historyVars>>

CreatedLoopDone ==
    /\ pc = "created"
    /\ loopIndex > Len(objectsCreated)
    /\ pc' = "transfers"
    /\ loopIndex' = 1
    /\ UNCHANGED <<clsVars, enrichVars, fetchVars, labelVars, txBlock, objectsCreated, objectsTransferred, synthVars,
                   historyVars>>

\* lines 383-399, one iteration
MapTransfer ==
    /\ pc = "transfers"
    /\ loopIndex <= Len(objectsTransferred)
    /\ LabelStep(TransferAddresses(
           FindTransferred(txBlock.objectChanges, objectsTransferred[loopIndex].objectId)))
    /\ loopIndex' = loopIndex + 1
    /\ UNCHANGED <<pc, clsVars, enrichVars, fetchVars, sender, txBlock, objectsCreated, objectsTransferred, synthVars,
                   historyVars>>

TransfersLoopDone ==
    /\ pc = "transfers"
    /\ loopIndex > Len(objectsTransferred)
    /\ pc' = "balances"
    /\ loopIndex' = 1
    /\ UNCHANGED <<clsVars, enrichVars, fetchVars, labelVars, txBlock, objectsCreated, objectsTransferred, synthVars,
                   historyVars>>

\* lines 401-406, one iteration
MapBalanceOwner ==
    /\ pc = "balances"
    /\ loopIndex <= Len(txBlock.balanceChanges)
    /\ LET owner == txBlock.balanceChanges[loopIndex].owner
       IN  LabelStep(IF owner.kind = "AddressOwner" /\ owner.addr # ""
                     THEN <<owner.addr>> ELSE <<>>)
    /\ loopIndex' = loopIndex + 1
    /\ UNCHANGED <<pc, clsVars, enrichVars, fetchVars, sender, txBlock, objectsCreated, objectsTransferred, synthVars,
                   historyVars>>

BalancesLoopDone ==
    /\ pc = "balances"
    /\ loopIndex > Len(txBlock.balanceChanges)
    /\ pc' = "synthesize"
    /\ UNCHANGED <<clsVars, enrichVars, fetchVars, labelVars, parseVars, synthVars, historyVars>>

\* lines 409-440: the record handed to the three renderers
SummaryData ==
    [sender |-> sender,
     objectsCreated |-> objectsCreated,
     objectsDeleted |-> ChangesOfType(txBlock.objectChanges, "deleted"),
     objectsMutated |-> ChangesOfType(txBlock.objectChanges, "mutated"),
     objectsTransferred |-> objectsTransferred,
     packageCalls |-> packageCalls,
     balanceChanges |-> txBlock.balanceChanges,
     addressToUser |-> addressToUser,
     rawObjectChanges |-> txBlock.objectChanges]

\* lines 408-459: the three renderers run and parseTransaction returns its
\* result, or a renderer raises and parseTransaction ends with that error
Synthesize ==
    /\ pc = "synthesize"
    /\ IF SynthesisRaises(SummaryData)
       THEN /\ pc' = "raised"
            /\ lastError' = NotAFunctionMessage
            /\ UNCHANGED <<summary, aiSummary, aiBreakdown>>
       ELSE /\ pc' = "parsed"
            /\ summary' = generateSummary(SummaryData)
            /\ aiSummary' = generateAISummary(SummaryData)
            /\ aiBreakdown' = generateAIBreakdown(SummaryData)
            /\ UNCHANGED lastError
    /\ UNCHANGED <<clsVars, enrichVars, labelVars, parseVars, gasUsed, packageCalls,
                   isDev, client, attempt, attemptedFallback, depth, switches, restarts,
                   probeIndex, outcome, historyVars>>

NextParse ==
    \/ Normalize
    \/ ParseMapSender
    \/ MapCreatedOwner
    \/ CreatedLoopDone
    \/ MapTransfer
    \/ TransfersLoopDone
    \/ MapBalanceOwner
    \/ BalancesLoopDone
    \/ Synthesize

SpecParse == InitParse /\ [][NextParse]_vars

\* the created-object step is at a created object whose owner is not a single
\* address: an object-owned, shared or immutable one
AtCreatedWithoutAddressOwner ==
    /\ pc = "created"
    /\ loopIndex <= Len(objectsCreated)
    /\ FindCreated(txBlock.objectChanges, objectsCreated[loopIndex].objectId).owner.kind
           # "AddressOwner"

\* C22: the created-object step of address discovery enters an owner into the
\* address-label map only when it is a single-address owner: at an object-owned,
\* shared or immutable created object the step adds no entry and consumes no
\* letter.
C22_OnlyAddressOwnersAreLabelled ==
    [][AtCreatedWithoutAddressOwner =>
           /\ addressToUser' = addressToUser
           /\ userIndex' = userIndex]_vars

RECURSIVE Dedup(_)
\* a sequence without the later repetitions of its elements
Dedup(seq) ==
    IF seq = <<>> THEN <<>>
    ELSE LET front == Dedup(SubSeq(seq, 1, Len(seq) - 1))
         IN  IF seq[Len(seq)] \in Range(front) THEN front ELSE Append(front, seq[Len(seq)])

\* the identifier an owner descriptor names, if it names one
C9_Named(owner) ==
    IF owner.kind \in {"String", "AddressOwner", "ObjectOwner"} /\ owner.addr # ""
    THEN <<owner.addr>> ELSE <<>>

RECURSIVE C9_CreatedOwners(_, _)
C9_CreatedOwners(changes, tx) ==
    IF changes = <<>> THEN <<>>
    ELSE (IF /\ Head(changes).type = "created"
             /\ isNFTObject(Head(changes).objectType, EnrichedGet(tx, Head(changes).objectId))
          THEN C9_Named(Head(changes).owner) ELSE <<>>)
         \o C9_CreatedOwners(Tail(changes), tx)

RECURSIVE C9_TransferEnds(_)
C9_TransferEnds(changes) ==
    IF changes = <<>> THEN <<>>
    ELSE (IF Head(changes).type = "transferred"
          THEN C9_Named(Head(changes).sender) \o C9_Named(Head(changes).recipient)
          ELSE <<>>)
         \o C9_TransferEnds(Tail(changes))

RECURSIVE C9_BalanceOwners(_)
C9_BalanceOwners(changes) ==
    IF changes = <<>> THEN <<>>
    ELSE (IF Head(changes).owner.kind = "AddressOwner"
          THEN C9_Named(Head(changes).owner) ELSE <<>>)
         \o C9_BalanceOwners(Tail(changes))

\* the group (1 sender, 2 created, 3 transfers, 4 balances) an address is first seen in
C9_FirstGroup(tx, created, transfers, address) ==
    IF address = tx.sender THEN 1
    ELSE IF address \in created THEN 2
    ELSE IF address \in transfers THEN 3
    ELSE 4

MapKeys(map) == [i \in 1..Len(map) |-> map[i].key]

\* C9: addresses are discovered in the order sender, owners of NFT-classified
\* created objects, source then destination of each transfer, owners of the
\* balance changes; the pseudonym letters follow that order, so an address
\* first seen in an earlier group holds an earlier letter.
C9_DiscoveryOrder ==
    LET created == C9_CreatedOwners(txBlock.objectChanges, txBlock)
        transfers == C9_TransferEnds(txBlock.objectChanges)
        balances == C9_BalanceOwners(txBlock.balanceChanges)
        expected == Dedup(SelectSeq(
                        (IF txBlock.sender = "" THEN <<>> ELSE <<txBlock.sender>>)
                        \o created \o transfers \o balances, Labelable))
        keys == MapKeys(addressToUser)
        group == [i \in 1..Len(keys) |->
                    C9_FirstGroup(txBlock, Range(created), Range(transfers), keys[i])]
    IN  /\ Len(keys) <= Len(expected)
        /\ keys = SubSeq(expected, 1, Len(keys))
        /\ pc = "parsed" => keys = expected
        /\ \A i \in 1..Len(keys) :
             i <= Len(Pseudonyms) => addressToUser[i].value = Pseudonyms[i]
        /\ \A i, j \in 1..Len(keys) : group[i] < group[j] => i < j

\* a parsed transaction in which each of the four groups brought a new address
C9_Witness ==
    /\ pc = "parsed"
    /\ MapKeys(addressToUser) =
         <<AddressPool[1], AddressPool[2], AddressPool[3], AddressPool[4]>>
    /\ Len(objectsCreated) = 1
    /\ Len(objectsTransferred) = 1
    /\ txBlock.balanceChanges # <<>>
    /\ txBlock.balanceChanges[1].owner = AddressOwner(AddressPool[4])

(***************************************************************************)
(* enrichWithObjectData (lines 165-236).                                   *)
(*                                                                         *)
(* The synchronous part (EnrichStart) selects the objects, and for each    *)
(* one registers its 2000 ms timer and calls getObject, then registers the *)
(* 4000 ms timer.  Afterwards the event loop runs one callback at a time:  *)
(* a getObject promise settles, or the timer that expires next fires.      *)
(* Timers fire in the order of their delay and, for equal delays, of their *)
(* registration; the promise reactions a callback sets off (the race of a  *)
(* slot, Promise.all, the return of enrichWithObjectData and the           *)
(* synchronous parseTransaction after it) run before the next callback.    *)
(***************************************************************************)

MaxCoinObjects == 3

MaxCreatedObjects == 5

MaxTransferredNonCoinObjects == 5

PerObjectTimeoutMs == 2000

OverallTimeoutMsTooShort == PerObjectTimeoutMs \div 2

OverallTimeoutMs == 4000

\* a coin selection that forgets the kind of the change
coinObjectsOfAnyKind(changes) ==
    Slice(SelectSeq(changes, LAMBDA c : IsCoinType(c.objectType)), MaxCoinObjects)

\* lines 168-170
coinObjects(changes) ==
    Slice(SelectSeq(changes, LAMBDA c : c.type = "transferred" /\ IsCoinType(c.objectType)),
          MaxCoinObjects)

\* lines 173-175
createdObjects(changes) ==
    Slice(SelectSeq(changes, LAMBDA c : c.type = "created"), MaxCreatedObjects)

\* lines 178-180
transferredNonCoinObjects(changes) ==
    Slice(SelectSeq(changes, LAMBDA c : c.type = "transferred" /\ ~IsCoinType(c.objectType)),
          MaxTransferredNonCoinObjects)

\* line 182
allObjectsToFetch(changes) ==
    coinObjects(changes) \o createdObjects(changes) \o transferredNonCoinObjects(changes)

\* the timers registered for n selected objects: one per object (line 199),
\* then the aggregate one (line 219); slot 0 is the aggregate timer
RegisteredTimers(n) ==
    { [slot |-> i, delay |-> PerObjectTimeoutMs, order |-> i] : i \in 1..n }
    \cup { [slot |-> 0, delay |-> OverallTimeoutMs, order |-> n + 1] }

\* the pending timer that expires next
NextTimer(pending) ==
    CHOOSE t \in pending :
        \A u \in pending :
            \/ t.delay < u.delay
            \/ (t.delay = u.delay /\ t.order <= u.order)

\* a slot that takes a rejection of getObject for a value
SlotAfterKeepsRejection(slot, event) ==
    IF slot # "pending" THEN slot
    ELSE IF event \in {"resolved", "rejected"} THEN "value" ELSE "null"

\* a slot that a fetch resolving after the timeout still fills
SlotAfterLateSuccessWins(slot, event) ==
    IF event = "resolved" THEN "value"
    ELSE IF slot # "pending" THEN slot ELSE "null"

\* Promise.race([fetchPromise, timeoutPromise]) of a slot, lines 207-213: the
\* slot takes the first outcome, a value for a resolved fetch and null otherwise
SlotAfter(slot, event) ==
    IF slot # "pending" THEN slot
    ELSE IF event = "resolved" THEN "value" ELSE "null"

RECURSIVE MapOfResults(_, _, _, _)
\* a Map built from every result, the null ones included
MapOfResultsUnfiltered(objects, slotStates, datas, n) ==
    [i \in 1..n |-> [key |-> objects[i].objectId, value |-> datas[i]]]

\* lines 224-228: new Map(results.filter(r => r !== null).map(r => [r.objectId, r.data]))
MapOfResults(objects, slotStates, datas, n) ==
    IF n = 0 THEN <<>>
    ELSE LET front == MapOfResults(objects, slotStates, datas, n - 1)
         IN  IF slotStates[n] = "value"
             THEN MapSet(front, objects[n].objectId, datas[n])
             ELSE front

AllSettled(slotStates) == \A i \in 1..Len(slotStates) : slotStates[i] # "pending"

\* the getObject responses
CoinData == [present |-> TRUE, hasDisplay |-> FALSE, displayName |-> "",
             hasContent |-> TRUE, fields |-> [NoFields EXCEPT !.balance = "1000000"]]

PlainData == [present |-> TRUE, hasDisplay |-> FALSE, displayName |-> "",
              hasContent |-> TRUE, fields |-> NoFields]

\* an object type no type rule of isNFTObject matches
TicketType == "0xa::ticket::Ticket"

\* a response whose content has a name of Move type vector<u8>, which the RPC
\* renders as an array of numbers
ByteNameData == [present |-> TRUE, hasDisplay |-> FALSE, displayName |-> "",
                 hasContent |-> TRUE,
                 fields |-> [NoFields EXCEPT !.name = "72,101,114,111", !.nameType = "array"]]

ResponsesFor(change) ==
    IF IsCoinType(change.objectType) THEN {CoinData}
    ELSE IF change.objectType = TicketType THEN {ByteNameData}
    ELSE {DisplayData, PlainData}

\* lines 166-222, up to the await
EnrichStart ==
    /\ pc = "enrich"
    /\ LET all == allObjectsToFetch(txBlock.objectChanges)
           n == Len(all)
       IN  /\ selected' = all
           /\ getObjectCalls' = [i \in 1..n |-> all[i].objectId]
           /\ fetchState' = [i \in 1..n |-> "inflight"]
           /\ fetchData' = [i \in 1..n |-> NoObjectData]
           /\ slots' = [i \in 1..n |-> "pending"]
           /\ firstOutcome' = [i \in 1..n |-> "none"]
           /\ IF n = 0
              THEN /\ timers' = {}
                   /\ txBlock' = [txBlock EXCEPT !.enrichedObjects = <<>>]
                   /\ pc' = "normalize"
              ELSE /\ timers' = RegisteredTimers(n)
                   /\ UNCHANGED txBlock
                   /\ pc' = "awaiting"
    /\ UNCHANGED <<overallFired, completedAtOverall, objectsCreated, objectsTransferred,
                   loopIndex, clsVars, labelVars, fetchVars, synthVars,
                   historyVars>>

\* the events of the event loop run while the call awaits them, or after it returned
EventLoopRuns == pc \in {"awaiting", "returned"}

\* the reactions to a slot event: when the call still awaits and no slot is left
\* pending, Promise.all resolves and enrichWithObjectData returns the Map (line 231)
SettleReactions(newSlots, newData) ==
    IF pc = "awaiting" /\ AllSettled(newSlots)
    THEN /\ txBlock' = [txBlock EXCEPT !.enrichedObjects =
                            MapOfResults(selected, newSlots, newData, Len(selected))]
         /\ pc' = "normalize"
    ELSE UNCHANGED <<txBlock, pc>>

FirstOutcomeAfter(i, event) ==
    IF firstOutcome[i] = "none" THEN [firstOutcome EXCEPT ![i] = event] ELSE firstOutcome

\* the getObject promise of object i resolves with a response
GetObjectResolves ==
    /\ EventLoopRuns
    /\ \E i \in 1..Len(selected) :
         /\ fetchState[i] = "inflight"
         /\ \E d \in ResponsesFor(selected[i]) :
              LET newSlots == [slots EXCEPT ![i] = SlotAfter(slots[i], "resolved")]
                  newData == [fetchData EXCEPT ![i] = d]
              IN  /\ fetchState' = [fetchState EXCEPT ![i] = "resolved"]
                  /\ fetchData' = newData
                  /\ slots' = newSlots
                  /\ firstOutcome' = FirstOutcomeAfter(i, "success")
                  /\ SettleReactions(newSlots, newData)
    /\ UNCHANGED <<selected, getObjectCalls, timers, overallFired, completedAtOverall,
                   objectsCreated, objectsTransferred, loopIndex, clsVars, labelVars,
                   fetchVars, synthVars,
                   historyVars>>

\* the getObject promise of object i rejects
GetObjectRejects ==
    /\ EventLoopRuns
    /\ \E i \in 1..Len(selected) :
         /\ fetchState[i] = "inflight"
         /\ LET newSlots == [slots EXCEPT ![i] = SlotAfter(slots[i], "rejected")]
            IN  /\ fetchState' = [fetchState EXCEPT ![i] = "rejected"]
                /\ slots' = newSlots
                /\ firstOutcome' = FirstOutcomeAfter(i, "rejection")
                /\ SettleReactions(newSlots, fetchData)
    /\ UNCHANGED <<selected, getObjectCalls, fetchData, timers, overallFired,
                   completedAtOverall, objectsCreated, objectsTransferred, loopIndex,
                   clsVars, labelVars, fetchVars, synthVars,
                   historyVars>>

\* the timer that expires next fires: the 2000 ms timer of a slot rejects its race
\* (line 199); the 4000 ms timer rejects the race with Promise.all (line 219), and
\* if that race is still open the catch of line 232 returns an empty Map
TimerFires ==
    /\ EventLoopRuns
    /\ timers # {}
    /\ LET t == NextTimer(timers)
       IN  /\ timers' = timers \ {t}
           /\ IF t.slot # 0
              THEN LET newSlots == [slots EXCEPT ![t.slot] = SlotAfter(slots[t.slot], "timeout")]
                   IN  /\ slots' = newSlots
                       /\ firstOutcome' = FirstOutcomeAfter(t.slot, "timeout")
                       /\ SettleReactions(newSlots, fetchData)
                       /\ UNCHANGED <<overallFired, completedAtOverall>>
              ELSE /\ overallFired' = TRUE
                   /\ completedAtOverall' =
                        { i \in 1..Len(selected) : fetchState[i] = "resolved" }
                   /\ IF pc = "awaiting"
                      THEN /\ txBlock' = [txBlock EXCEPT !.enrichedObjects = <<>>]
                           /\ pc' = "normalize"
                      ELSE UNCHANGED <<txBlock, pc>>
                   /\ UNCHANGED <<slots, firstOutcome>>
    /\ UNCHANGED <<selected, getObjectCalls, fetchState, fetchData, objectsCreated,
                   objectsTransferred, loopIndex, clsVars, labelVars, fetchVars, synthVars,
                   historyVars>>

\* lines 129-130: fetchTransactionDetails returns the parsed transaction
ReturnParsed ==
    /\ pc = "parsed"
    /\ outcome' = [kind |-> "value", message |-> ""]
    /\ pc' = "returned"
    /\ UNCHANGED <<isDev, client, attempt, attemptedFallback, depth, switches, restarts,
                   probeIndex, lastError, clsVars, labelVars, parseVars, enrichVars, synthVars,
                   historyVars>>

NextEnrich ==
    \/ EnrichStart
    \/ GetObjectResolves
    \/ GetObjectRejects
    \/ TimerFires
    \/ NextParse
    \/ ReturnParsed

(***************************************************************************)
(* SpecEnrich: enrichment and interpretation of a fetched transaction, for *)
(* every raw transaction of a bounded family and every behaviour of        *)
(* getObject (each call resolves or rejects at any moment, or never).      *)
(***************************************************************************)

MaxEnrichChanges == 2

CoinType == "0x2::coin::Coin<0x2::sui::SUI>"

EnrichChangeShapes ==
    { CreatedChange("", NftType, AddressOwner(AddressPool[2])),
      CreatedChange("", PlainType, SharedOwner),
      TransferredChange("", NftType, StringOwner(AddressPool[1]), AddressOwner(AddressPool[2])),
      TransferredChange("", CoinType, StringOwner(AddressPool[1]), AddressOwner(AddressPool[4])),
      MutatedChange("", CoinType, AddressOwner(AddressPool[1])) }

EnrichTxBlocks ==
    { [sender |-> AddressPool[1], objectChanges |-> WithObjectIds(c), balanceChanges |-> b,
       enrichedObjects |-> <<>>,
       gasUsed |-> NoGasUsed, transactions |-> <<>>] :
        c \in SeqsUpTo(EnrichChangeShapes, MaxEnrichChanges),
        b \in { <<>>, <<BalanceChange(AddressOwner(AddressPool[4]), SuiType, "1000000")>> } }

InitEnrich ==
    /\ pc = "enrich"
    /\ txBlock \in EnrichTxBlocks
    /\ objectsCreated = <<>>
    /\ objectsTransferred = <<>>
    /\ loopIndex = 0
    /\ ClassifierIdle
    /\ LabelerIdle
    /\ EnrichIdle
    /\ FetchIdle
    /\ SynthIdle
    /\ HistoryIdle

SpecEnrich == InitEnrich /\ [][NextEnrich]_vars

\* enrichWithObjectData has returned
EnrichReturned == pc \notin {"enrich", "awaiting"}

SelectedSlots == 1..Len(selected)

\* C2: when getObject rejects for every selected object, the call still returns a
\* parsed transaction: the enrichment mapping is empty, every isNFT flag is the
\* classification of the type alone, and no error reaches the caller.
C2_AllRejectedStillParsed ==
    (pc = "returned" /\ \A i \in SelectedSlots : firstOutcome[i] = "rejection")
        => /\ outcome.kind = "value"
           /\ txBlock.enrichedObjects = <<>>
           /\ LET created == ChangesOfType(txBlock.objectChanges, "created")
                  transferred == ChangesOfType(txBlock.objectChanges, "transferred")
              IN  /\ Len(objectsCreated) = Len(created)
                  /\ Len(objectsTransferred) = Len(transferred)
                  /\ \A i \in 1..Len(created) :
                       objectsCreated[i].isNFT
                           = isNFTObject(created[i].objectType, NoObjectData)
                  /\ \A i \in 1..Len(transferred) :
                       objectsTransferred[i].isNFT
                           = isNFTObject(transferred[i].objectType, NoObjectData)

\* two objects were selected, getObject rejected for both, and the parsed
\* transaction was returned with a created NFT classified by its type
C2_Witness ==
    /\ pc = "returned"
    /\ Len(selected) = 2
    /\ \A i \in SelectedSlots : firstOutcome[i] = "rejection"
    /\ outcome.kind = "value"
    /\ \E i \in 1..Len(objectsCreated) : objectsCreated[i].isNFT

\* C3: a rejection or a per-object timeout of one object's fetch removes only the
\* entry of that object: once enrichWithObjectData has returned, the mapping holds
\* the response of every selected object whose fetch succeeded within its own
\* timeout, no entry for one that was rejected or timed out, and no error is raised.
C3_FailureRemovesOnlyThatEntry ==
    EnrichReturned =>
        /\ outcome.kind # "error"
        /\ \A i \in SelectedSlots :
             /\ firstOutcome[i] = "success" =>
                    /\ MapHas(txBlock.enrichedObjects, selected[i].objectId)
                    /\ MapGet(txBlock.enrichedObjects, selected[i].objectId) = fetchData[i]
             /\ firstOutcome[i] \in {"rejection", "timeout"} =>
                    ~MapHas(txBlock.enrichedObjects, selected[i].objectId)

\* the fetch of one object failed (a rejection or its timeout) and the response
\* of another one is in the returned mapping
C3_Witness ==
    /\ pc = "returned"
    /\ \E i, j \in SelectedSlots :
         /\ firstOutcome[i] \in {"rejection", "timeout"}
         /\ firstOutcome[j] = "success"
         /\ MapHas(txBlock.enrichedObjects, selected[j].objectId)
         /\ ~MapHas(txBlock.enrichedObjects, selected[i].objectId)

\* C4 as stated: when the 4000 ms timer fires, the mapping holds every object whose
\* fetch had completed successfully by then.
C4_CompletedObjectsKept ==
    overallFired =>
        \A i \in completedAtOverall :
            MapHas(txBlock.enrichedObjects, selected[i].objectId)

\* C4, amended: when the 4000 ms timer fires every slot has been settled by its
\* fetch or by its own 2000 ms timer and the mapping has been returned; it holds
\* exactly the objects whose fetch succeeded before their own timer fired, so an
\* object whose fetch succeeded between its own timer and the 4000 ms one is omitted.
C4_MappingFixedBeforeOverallTimeout ==
    overallFired =>
        /\ AllSettled(slots)
        /\ pc = "returned"
        /\ \A i \in SelectedSlots :
             MapHas(txBlock.enrichedObjects, selected[i].objectId)
                 <=> firstOutcome[i] = "success"

\* the 4000 ms timer fired when one fetch had succeeded in time and another had
\* succeeded after its own timer
C4_Witness ==
    /\ overallFired
    /\ \E i, j \in completedAtOverall :
         /\ firstOutcome[i] = "success"
         /\ firstOutcome[j] = "timeout"
         /\ MapHas(txBlock.enrichedObjects, selected[i].objectId)
         /\ ~MapHas(txBlock.enrichedObjects, selected[j].objectId)

(***************************************************************************)
(* SpecSynth: parseTransaction (lines 238-460) on enriched transactions    *)
(* made for the renderers: object changes for each rule of the headline,   *)
(* with and without enrichment, balance changes around the thresholds of   *)
(* lines 617, 1203 and 1206, Move calls, and gas amounts.                  *)
(***************************************************************************)

UsdcType == "0xdba34672e30cb065b1f93e3ab55318768fd6fef66c15942c9f7cb846e2f900e7::usdc::USDC"

UsdcCoinType == "0x2::coin::Coin<" \o UsdcType \o ">"

SynthSender == AddressPool[1]

SynthObjectChanges ==
    { <<>>,
      << CreatedChange(ObjectIdAt(1), NftType, AddressOwner(AddressPool[2])) >>,
      << CreatedChange(ObjectIdAt(1), NftType, AddressOwner(SynthSender)) >>,
      << CreatedChange(ObjectIdAt(1), PlainType, SharedOwner) >>,
      << CreatedChange(ObjectIdAt(1), NftType, AddressOwner(AddressPool[2])),
         CreatedChange(ObjectIdAt(2), NftType, AddressOwner(AddressPool[2])) >>,
      << CreatedChange(ObjectIdAt(1), NftType, AddressOwner(AddressPool[2])),
         TransferredChange(ObjectIdAt(1), NftType, StringOwner(SynthSender),
                           AddressOwner(AddressPool[2])) >>,
      << CreatedChange(ObjectIdAt(1), NftType, AddressOwner(SynthSender)),
         TransferredChange(ObjectIdAt(1), NftType, StringOwner(AddressPool[3]),
                           AddressOwner(SynthSender)) >>,
      << TransferredChange(ObjectIdAt(1), NftType, StringOwner(SynthSender),
                           AddressOwner(AddressPool[2])) >>,
      << TransferredChange(ObjectIdAt(1), NftType, StringOwner(SynthSender),
                           AddressOwner(AddressPool[2])),
         TransferredChange(ObjectIdAt(2), NftType, StringOwner(SynthSender),
                           AddressOwner(AddressPool[2])) >>,
      << TransferredChange(ObjectIdAt(1), UsdcCoinType, StringOwner(SynthSender),
                           AddressOwner(AddressPool[4])) >>,
      << TransferredChange(ObjectIdAt(1), CoinType, StringOwner(SynthSender),
                           AddressOwner(AddressPool[4])) >>,
      << TransferredChange(ObjectIdAt(1), PlainType, StringOwner(SynthSender),
                           AddressOwner(AddressPool[2])) >>,
      << MutatedChange(ObjectIdAt(1), PlainType, AddressOwner(SynthSender)),
         DeletedChange(ObjectIdAt(2), PlainType) >> }

\* the enrichment mappings: empty, or one entry for every created and transferred
\* object, with display metadata or with content fields only
EnrichmentKinds == {"none", "display", "content"}

EnrichmentFor(changes, kind) ==
    LET objects == SelectSeq(changes, LAMBDA c : c.type \in {"created", "transferred"})
        dataOf(c) == IF IsCoinType(c.objectType) THEN CoinData
                     ELSE IF kind = "display" THEN DisplayData
                     ELSE PlainData
    IN  IF kind = "none" THEN <<>>
        ELSE Dedup([i \in 1..Len(objects) |->
                       [key |-> objects[i].objectId, value |-> dataOf(objects[i])]])

SynthBalanceChanges ==
    { <<>>,
      << BalanceChange(AddressOwner(SynthSender), SuiType, "-2000000") >>,
      << BalanceChange(AddressOwner(SynthSender), SuiType, "-2000000"),
         BalanceChange(AddressOwner(AddressPool[2]), SuiType, "1990000") >>,
      << BalanceChange(AddressOwner(SynthSender), SuiType, "-50000000"),
         BalanceChange(AddressOwner(AddressPool[2]), SuiType, "49600000") >>,
      << BalanceChange(AddressOwner(SynthSender), SuiType, "-2000000000"),
         BalanceChange(AddressOwner(AddressPool[2]), SuiType, "1984000000") >>,
      << BalanceChange(AddressOwner(SynthSender), UsdcType, "-2000000"),
         BalanceChange(AddressOwner(AddressPool[2]), UsdcType, "1984000") >>,
      << BalanceChange(AddressOwner(SynthSender), UsdcType, "-1984000"),
         BalanceChange(AddressOwner(AddressPool[2]), UsdcType, "2000000") >>,
      << BalanceChange(AddressOwner(SynthSender), UsdcType, "-2000000"),
         BalanceChange(AddressOwner(SynthSender), UsdcType, "1984000") >>,
      << BalanceChange(AddressOwner(SynthSender), UsdcType, "-2000000"),
         BalanceChange(AddressOwner(AddressPool[2]), UsdcType, "1900000") >> }

SynthTransactions ==
    { <<>>,
      << MoveCall("0xa", "market", "swap_exact") >>,
      << TransferObjectsCommand, MoveCall("0x2", "pay", "split_coin"),
         MoveCall("0xa", "hero", "level_up") >> }

GasAmounts == {"0", "30", "50", "100", "1000000000"}

\* the transactions of the rules, without gas accounting
RuleTxBlocks ==
    { [sender |-> SynthSender, objectChanges |-> c, balanceChanges |-> b,
       enrichedObjects |-> EnrichmentFor(c, e),
       gasUsed |-> NoGasUsed, transactions |-> t] :
        c \in SynthObjectChanges, b \in SynthBalanceChanges, e \in EnrichmentKinds,
        t \in SynthTransactions }

\* one transaction with every gas accounting of the amounts
GasTxBlocks ==
    { [sender |-> SynthSender, objectChanges |-> <<>>, balanceChanges |-> <<>>,
       enrichedObjects |-> <<>>,
       gasUsed |-> GasUsed(computation, storage, rebate), transactions |-> <<>>] :
        computation \in GasAmounts, storage \in GasAmounts, rebate \in GasAmounts }

\* the number of balance changes of the long lists
LongBalanceLen == 6

\* lists of balance changes longer than the five generateSummary looks at: USDC
\* received by as many addresses, with the gas payment of the sender (0.001 SUI)
\* at one position, or at none
LongBalanceChanges ==
    { [i \in 1..LongBalanceLen |->
          IF i = gasAt
          THEN BalanceChange(AddressOwner(SynthSender), SuiType, "-1000000")
          ELSE BalanceChange(AddressOwner(AddressPool[i + 1]), UsdcType,
                             NumberToString(i * 1000000))] :
        gasAt \in 0..LongBalanceLen }

\* transactions of balance changes only
BalanceTxBlocks ==
    { [sender |-> SynthSender, objectChanges |-> <<>>, balanceChanges |-> b,
       enrichedObjects |-> <<>>,
       gasUsed |-> NoGasUsed, transactions |-> t] :
        b \in LongBalanceChanges, t \in SynthTransactions }

SynthTxBlocks == RuleTxBlocks \cup GasTxBlocks \cup BalanceTxBlocks

InitSynth ==
    /\ pc = "normalize"
    /\ txBlock \in SynthTxBlocks
    /\ objectsCreated = <<>>
    /\ objectsTransferred = <<>>
    /\ loopIndex = 0
    /\ ClassifierIdle
    /\ LabelerIdle
    /\ EnrichIdle
    /\ FetchIdle
    /\ SynthIdle
    /\ HistoryIdle

SpecSynth == InitSynth /\ [][NextParse]_vars

\* parseTransaction has returned its result
Parsed == pc = "parsed"

\* the tier of the ladder a return statement of generateAISummary belongs to
TierOf(rule) ==
    CASE rule \in {"mintAndSend", "selfMint"} -> 1
      [] rule = "nftTransfer" -> 2
      [] rule = "coinTransfer" -> 3
      [] rule = "balancePair" -> 4
      [] rule = "otherTransfer" -> 5
      [] rule \in {"createdForOther", "minted", "created"} -> 6
      [] rule = "contractCall" -> 7
      [] rule = "fallback" -> 8

\* the condition under which the code enters the block of a tier: lines 1029,
\* 1023, 1160, 1196-1210, 1225-1234, 1241, 1329; the last tier has none
TierApplies(tier, data) ==
    CASE tier = 1 -> MintedAndTransferred(data) # <<>>
      [] tier = 2 -> RelevantNFTs(data.objectsTransferred) # <<>>
      [] tier = 3 -> CoinTransferSentence(data) # NoSentence
      [] tier = 4 -> BalancePairSentence(data) # NoSentence
      [] tier = 5 -> OtherTransferSentence(data) # NoSentence
      [] tier = 6 -> data.objectsCreated # <<>>
      [] tier = 7 -> data.packageCalls # <<>>
      [] tier = 8 -> TRUE

\* the tier of the returned headline
ReturnedTier == TierOf(AISummaryResult(SummaryData).rule)

\* C11: the headline is the sentence of the first applicable tier of the ladder:
\* no tier before the one whose sentence is returned is applicable, and the
\* generic sentence is returned exactly when none of the other seven applies.
C11_FirstApplicableTier ==
    Parsed =>
        /\ aiSummary = AISummaryResult(SummaryData).text
        /\ \A tier \in 1..7 : tier < ReturnedTier => ~TierApplies(tier, SummaryData)
        /\ (ReturnedTier = 8) <=> (\A tier \in 1..7 : ~TierApplies(tier, SummaryData))

\* the transaction has one created object, an NFT owned by an address other than
\* the sender, no transferred change and no qualifying pair of balance changes
OneNFTCreatedForOther ==
    /\ Len(objectsCreated) = 1
    /\ objectsCreated[1].isNFT
    /\ FindCreated(txBlock.objectChanges, objectsCreated[1].objectId).owner.kind = "AddressOwner"
    /\ objectsCreated[1].fullOwnerAddress # sender
    /\ objectsTransferred = <<>>
    /\ BalancePairSentence(SummaryData) = NoSentence

\* C12: for one created NFT owned by an address other than the sender, with no
\* transferred change and no qualifying balance pair, the headline is
\* '<recipient> received <name> from <sender>', whatever classified the NFT.
C12_ReceivedFromSender ==
    Parsed /\ OneNFTCreatedForOther =>
        aiSummary = Marker(getUserLabel(addressToUser, objectsCreated[1].fullOwnerAddress))
                    \o " received " \o NameOrNFT(objectsCreated[1])
                    \o " from " \o Marker(getUserLabel(addressToUser, sender))

\* relevant NFTs were created and transferred in the transaction and every such
\* transfer went to the sender
AllMintedWentToSender ==
    LET minted == MintedAndTransferred(SummaryData)
    IN  /\ minted # <<>>
        /\ \A i \in 1..Len(minted) : TransferToAddr(SummaryData, minted[i]) = sender

\* C21: when every relevant NFT created and transferred in the transaction went
\* to the sender, the headline is '<sender> mints <name>' for one NFT and
\* '<sender> mints <n> <collection>s' for several, not a 'receives ... from'
\* sentence.
C21_SelfMintPhrasing ==
    Parsed /\ AllMintedWentToSender =>
        LET minted == MintedAndTransferred(SummaryData)
        IN  aiSummary = Marker(getUserLabel(addressToUser, sender)) \o " mints "
                        \o (IF Len(minted) = 1
                            THEN NameOrNFT(minted[1])
                            ELSE CountOf(Len(minted), CollectionName(minted[1])))

\* the balance changes are one negative and one positive entry
OneNegativeOnePositive ==
    /\ Len(txBlock.balanceChanges) = 2
    /\ \E i, j \in 1..2 :
         /\ ParseNumber(txBlock.balanceChanges[i].amount) < 0
         /\ ParseNumber(txBlock.balanceChanges[j].amount) > 0

NegativeEntry ==
    txBlock.balanceChanges[CHOOSE i \in 1..2 : ParseNumber(txBlock.balanceChanges[i].amount) < 0]

PositiveEntry ==
    txBlock.balanceChanges[CHOOSE j \in 1..2 : ParseNumber(txBlock.balanceChanges[j].amount) > 0]

SentAmount == Abs(ParseNumber(NegativeEntry.amount))

ReceivedAmount == ParseNumber(PositiveEntry.amount)

\* the two entries have the same coin type and different address owners, and no
\* tier before the paired balance changes applies
PairedBalanceChanges ==
    /\ OneNegativeOnePositive
    /\ CoinTypeOf(NegativeEntry) = CoinTypeOf(PositiveEntry)
    /\ NegativeEntry.owner.kind = "AddressOwner"
    /\ PositiveEntry.owner.kind = "AddressOwner"
    /\ NegativeEntry.owner.addr # PositiveEntry.owner.addr
    /\ \A tier \in 1..3 : ~TierApplies(tier, SummaryData)

\* '<negative owner> sends <amount> <symbol> to <positive owner>'
SendSentenceOf(amount) ==
    LET tokenInfo == getTokenInfoFromType(CoinTypeOf(NegativeEntry))
    IN  Marker(getUserLabel(addressToUser, NegativeEntry.owner.addr)) \o " sends "
        \o ToFixed(amount, tokenInfo.decimals, PlacesFor(tokenInfo.decimals))
        \o " " \o tokenInfo.symbol \o " to "
        \o Marker(getUserLabel(addressToUser, PositiveEntry.owner.addr))

\* the pair is one of the native coin with less than 0.1 SUI sent
NativePairBelowTenth ==
    /\ getTokenInfoFromType(CoinTypeOf(NegativeEntry)).symbol = "SUI"
    /\ SentAmount < Pow10(8)

\* C13 (as amended): for one negative and one positive balance change of the same
\* coin type, of different address owners, that differ by less than 1% of the
\* negative entry's magnitude, with no higher tier applicable and not a native
\* pair sending less than 0.1 SUI, the headline is the send sentence from the
\* negative entry's owner to the positive entry's owner and shows the magnitude
\* of the negative entry.
C13_PairShowsSentAmount ==
    Parsed /\ PairedBalanceChanges /\ 100 * Abs(SentAmount - ReceivedAmount) < SentAmount
           /\ ~NativePairBelowTenth
        => aiSummary = SendSentenceOf(SentAmount)

\* a pair whose sent amount is the larger magnitude has given the sentence
C13_Witness ==
    /\ Parsed
    /\ PairedBalanceChanges
    /\ 100 * Abs(SentAmount - ReceivedAmount) < SentAmount
    /\ ~NativePairBelowTenth
    /\ SentAmount > ReceivedAmount
    /\ aiSummary = SendSentenceOf(SentAmount)
    /\ SendSentenceOf(SentAmount) # SendSentenceOf(ReceivedAmount)

\* C13 (as stated): for such a pair with magnitudes within 1% of each other the
\* headline is the send sentence and shows the smaller of the two magnitudes.
C13_PairShowsSmallerAmount ==
    Parsed /\ PairedBalanceChanges
           /\ 100 * Abs(SentAmount - ReceivedAmount)
                < (IF SentAmount < ReceivedAmount THEN SentAmount ELSE ReceivedAmount)
        => aiSummary = SendSentenceOf(IF SentAmount < ReceivedAmount THEN SentAmount
                                      ELSE ReceivedAmount)

\* str.endsWith(suffix)
EndsWith(str, suffix) ==
    Len(str) >= Len(suffix) /\ SubSeq(str, Len(str) - Len(suffix) + 1, Len(str)) = suffix

\* the balance changes are native-coin changes below 0.01 SUI (10^7 MIST), all of them
OnlyTinyNativeChanges ==
    /\ txBlock.balanceChanges # <<>>
    /\ \A i \in 1..Len(txBlock.balanceChanges) :
         /\ CoinTypeOf(txBlock.balanceChanges[i]) = SuiType
         /\ Abs(ParseNumber(txBlock.balanceChanges[i].amount)) < Pow10(7)

\* C14: when the balance changes are only native-coin changes below 0.01 SUI, the
\* bullet summary has no balance line (no line '... <amount> SUI') and the
\* headline is not the paired-balance send sentence but one of a later tier or
\* of an earlier one that applies on its own.
C14_TinyNativeChangesAreSkipped ==
    Parsed /\ OnlyTinyNativeChanges =>
        /\ \A i \in 1..Len(summary) : ~EndsWith(summary[i], " SUI")
        /\ ReturnedTier # 4
        /\ ~Includes(aiSummary, " SUI to ")

\* a pair of tiny native changes of two owners, within 1% of each other, has been
\* passed over and the headline is the one of a later tier
C14_Witness ==
    /\ Parsed
    /\ OnlyTinyNativeChanges
    /\ PairedBalanceChanges
    /\ 100 * Abs(SentAmount - ReceivedAmount) < SentAmount
    /\ ReturnedTier > 4
    /\ Len(summary) = 1

\* a balance change that is not a native-unit change below 0.01
C24_IsSignificant(change) ==
    LET tokenInfo == getTokenInfoFromType(CoinTypeOf(change))
    IN  ~(tokenInfo.symbol = "SUI"
          /\ BelowHundredth(ParseNumber(change.amount), tokenInfo.decimals))

\* the lines of the first five significant balance changes, in order
C24_ExpectedLines ==
    LET significant == SelectSeq(txBlock.balanceChanges, C24_IsSignificant)
        shown == Slice(significant, 5)
    IN  [i \in 1..Len(shown) |-> BalanceLine(SummaryData, shown[i])[1]]

\* C24: the balance lines of the summary are those of the first five significant
\* balance changes in order; native-unit changes below 0.01 do not count toward
\* the five, so with fewer than five lines every significant change has a line.
C24_FirstFiveSignificant ==
    Parsed =>
        summary = generateSummary([SummaryData EXCEPT !.balanceChanges = <<>>])
                  \o C24_ExpectedLines

\* the summary lines, the headline and the breakdown lines
C26_Texts ==
    { summary[i] : i \in 1..Len(summary) }
    \cup {aiSummary}
    \cup { aiBreakdown[i] : i \in 1..Len(aiBreakdown) }

\* C26: in the summary lines, the headline and the breakdown lines no marker
\* carries the truncated raw address of an address that holds a pseudonym in the
\* address-label map: the marker of a labelled party carries its label.
C26_MarkersCarryLabels ==
    Parsed =>
        \A k \in 1..Len(addressToUser) :
            addressToUser[k].value # truncateAddress(addressToUser[k].key) =>
                \A text \in C26_Texts :
                    ~Includes(text, Marker(truncateAddress(addressToUser[k].key)))

\* C15: gasUsed is the decimal form of the exact integer computationCost +
\* storageCost - storageRebate (100, 50, 30 gives 120; two costs of 10^9 give
\* 2000000000), and it is 0 for a transaction without gas accounting.
C15_GasUsedIsExactTotal ==
    Parsed =>
        IF txBlock.gasUsed.present
        THEN /\ ParseNumber(gasUsed) = ParseNumber(txBlock.gasUsed.computationCost)
                                       + ParseNumber(txBlock.gasUsed.storageCost)
                                       - ParseNumber(txBlock.gasUsed.storageRebate)
             /\ NumberToString(ParseNumber(gasUsed)) = gasUsed
             /\ txBlock.gasUsed = GasUsed("100", "50", "30") => gasUsed = "120"
             /\ txBlock.gasUsed = GasUsed("1000000000", "1000000000", "0")
                    => gasUsed = "2000000000"
        ELSE gasUsed = "0"

\* the transaction with computation 100, storage 50 and rebate 30 has been parsed
C15_Witness ==
    /\ Parsed
    /\ txBlock.gasUsed = GasUsed("100", "50", "30")
    /\ gasUsed = "120"

(***************************************************************************)
(* SpecRerun: parseTransaction called a second time on the same enriched   *)
(* transaction.  The collections, the label Map and userIndex are locals   *)
(* of the call (lines 254-257, 334, 350-352), so the second call starts    *)
(* with fresh ones; firstRun keeps what the first call returned.           *)
(***************************************************************************)

\* lines 442-459: the text artifacts and label maps of the returned result
ResultOfRun ==
    [done |-> TRUE, summary |-> summary, aiSummary |-> aiSummary,
     aiBreakdown |-> aiBreakdown, addressToUser |-> addressToUser,
     userAddressMap |-> userAddressMapOf(addressToUser), gasUsed |-> gasUsed]

\* line 128 once more: parseTransaction(enrichedTxBlock) is called on the same
\* record after it has returned
Rerun ==
    /\ pc = "parsed"
    /\ ~firstRun.done
    /\ firstRun' = ResultOfRun
    /\ objectsCreated' = <<>>
    /\ objectsTransferred' = <<>>
    /\ packageCalls' = <<>>
    /\ addressToUser' = <<>>
    /\ userIndex' = FreshUserIndex
    /\ sender' = "Unknown"
    /\ encounter' = <<>>
    /\ loopIndex' = 0
    /\ gasUsed' = ""
    /\ summary' = <<>>
    /\ aiSummary' = ""
    /\ aiBreakdown' = <<>>
    /\ pc' = "normalize"
    /\ UNCHANGED <<txBlock, clsVars, enrichVars, fetchVars, delays, attemptErrors, sharedVars>>

NextRerun == NextParse \/ Rerun

SpecRerun == InitSynth /\ [][NextRerun]_vars

MaxRuns == 3

RunLengths == {1, 4, 6}

SelChangeShapes ==
    { CreatedChange("", NftType, AddressOwner(AddressPool[2])),
      TransferredChange("", NftType, StringOwner(AddressPool[1]), AddressOwner(AddressPool[2])),
      TransferredChange("", CoinType, StringOwner(AddressPool[1]), AddressOwner(AddressPool[4])),
      MutatedChange("", CoinType, AddressOwner(AddressPool[1])),
      DeletedChange("", PlainType) }

RECURSIVE RunsToChanges(_)
\* the changes of a sequence of runs <<shape, length>>
RunsToChanges(runs) ==
    IF runs = <<>> THEN <<>>
    ELSE [i \in 1..Head(runs)[2] |-> Head(runs)[1]] \o RunsToChanges(Tail(runs))

SelTxBlocks ==
    { [sender |-> AddressPool[1], objectChanges |-> WithObjectIds(RunsToChanges(r)),
       balanceChanges |-> <<>>, enrichedObjects |-> <<>>,
       gasUsed |-> NoGasUsed, transactions |-> <<>>] :
        r \in SeqsUpTo(SelChangeShapes \X RunLengths, MaxRuns) }

InitSel ==
    /\ pc = "enrich"
    /\ txBlock \in SelTxBlocks
    /\ objectsCreated = <<>>
    /\ objectsTransferred = <<>>
    /\ loopIndex = 0
    /\ ClassifierIdle
    /\ LabelerIdle
    /\ EnrichIdle
    /\ FetchIdle
    /\ SynthIdle
    /\ HistoryIdle

NextSel == EnrichStart

SpecSel == InitSel /\ [][NextSel]_vars

\* the number of changes before position p that satisfy Test
CountBefore(changes, p, Test(_)) == Cardinality({ q \in 1..(p - 1) : Test(changes[q]) })

C5_IsCoinTransfer(c) == c.type = "transferred" /\ Includes(c.objectType, "coin::Coin")

C5_IsCreated(c) == c.type = "created"

C5_IsOtherTransfer(c) == c.type = "transferred" /\ ~Includes(c.objectType, "coin::Coin")

\* the change at position p is among the first 3 coin transfers, the first 5
\* created changes or the first 5 transfers of something else
C5_Chosen(changes, p) ==
    \/ C5_IsCoinTransfer(changes[p]) /\ CountBefore(changes, p, C5_IsCoinTransfer) < 3
    \/ C5_IsCreated(changes[p]) /\ CountBefore(changes, p, C5_IsCreated) < 5
    \/ C5_IsOtherTransfer(changes[p]) /\ CountBefore(changes, p, C5_IsOtherTransfer) < 5

\* C5: getObject is requested exactly for the first 3 transferred changes of a coin
\* type, the first 5 created changes and the first 5 transferred changes of another
\* type, once each: at most 13 requests, none for a mutated or a deleted change.
C5_SelectionLimits ==
    pc # "enrich" =>
        LET changes == txBlock.objectChanges
        IN  /\ Len(getObjectCalls) <= 13
            /\ Range(getObjectCalls)
                 = { changes[p].objectId : p \in { q \in 1..Len(changes) : C5_Chosen(changes, q) } }
            /\ \A i, j \in 1..Len(getObjectCalls) :
                 getObjectCalls[i] = getObjectCalls[j] => i = j
            /\ \A p \in 1..Len(changes) :
                 changes[p].type \in {"mutated", "deleted"}
                     => changes[p].objectId \notin Range(getObjectCalls)

\* a transaction with more than 3 coin transfers, 5 created changes and 5 other
\* transfers: 13 requests were made
C5_Witness ==
    /\ pc = "awaiting"
    /\ Len(getObjectCalls) = 13
    /\ Len(txBlock.objectChanges) > 13

\* C6: with no created and no transferred change in the raw transaction the
\* enrichment returns at once with an empty mapping and getObject is not called.
C6_NothingSelectedNothingFetched ==
    (/\ pc # "enrich"
     /\ \A p \in 1..Len(txBlock.objectChanges) :
          txBlock.objectChanges[p].type \notin {"created", "transferred"})
        => /\ getObjectCalls = <<>>
           /\ timers = {}
           /\ txBlock.enrichedObjects = <<>>
           /\ pc = "normalize"

\* a transaction of mutated coins and deleted objects only went through the
\* selection
C6_Witness ==
    /\ pc = "normalize"
    /\ Len(txBlock.objectChanges) > 1
    /\ \E p \in 1..Len(txBlock.objectChanges) :
         /\ txBlock.objectChanges[p].type = "mutated"
         /\ IsCoinType(txBlock.objectChanges[p].objectType)
    /\ getObjectCalls = <<>>

\* C20: the first outcome of the race of a slot is final: a slot whose 2000 ms
\* timer fired before its fetch answered stays null when the fetch resolves later
\* and its object has no entry in the returned mapping, and the call awaits only
\* while the race of some slot has had no outcome, never a late result.
C20_FirstOutcomeIsFinal ==
    /\ \A i \in SelectedSlots :
         firstOutcome[i] = "timeout" =>
             /\ slots[i] = "null"
             /\ EnrichReturned => ~MapHas(txBlock.enrichedObjects, selected[i].objectId)
    /\ pc = "awaiting" => \E i \in SelectedSlots : firstOutcome[i] = "none"

\* the call returned a mapping with the response of one object while the fetch of
\* another, cut off by its timer, was in flight; that fetch resolved after the
\* 4000 ms timer
C20_Witness ==
    /\ pc = "returned"
    /\ overallFired
    /\ \E i, j \in SelectedSlots :
         /\ firstOutcome[i] = "timeout"
         /\ fetchState[i] = "resolved"
         /\ i \notin completedAtOverall
         /\ firstOutcome[j] = "success"
         /\ MapHas(txBlock.enrichedObjects, selected[j].objectId)

(***************************************************************************)
(* SpecSameObject: enrichment and interpretation of transactions in which  *)
(* one object is both created and transferred, the case lines 1024-1026    *)
(* of generateAISummary look for: the created change and the transferred   *)
(* change carry the same objectId.                                         *)
(***************************************************************************)

SameObjectTxBlocks ==
    { [sender |-> AddressPool[1],
       objectChanges |->
           << CreatedChange(ObjectIdAt(1), t, AddressOwner(AddressPool[2])),
              TransferredChange(ObjectIdAt(1), t, StringOwner(AddressPool[1]),
                                AddressOwner(AddressPool[2])) >> \o more,
       balanceChanges |-> b,
       enrichedObjects |-> <<>>,
       gasUsed |-> NoGasUsed, transactions |-> <<>>] :
        t \in {NftType, PlainType},
        more \in { <<>>, << CreatedChange(ObjectIdAt(2), PlainType, SharedOwner) >> },
        b \in { <<>>, <<BalanceChange(AddressOwner(AddressPool[4]), SuiType, "1000000")>> } }

InitSameObject ==
    /\ pc = "enrich"
    /\ txBlock \in SameObjectTxBlocks
    /\ objectsCreated = <<>>
    /\ objectsTransferred = <<>>
    /\ loopIndex = 0
    /\ ClassifierIdle
    /\ LabelerIdle
    /\ EnrichIdle
    /\ FetchIdle
    /\ SynthIdle
    /\ HistoryIdle

SpecSameObject == InitSameObject /\ [][NextEnrich]_vars

\* C28: within one enrichment run getObject is invoked at most once per object
\* identifier, also for an object that is both a created and a transferred change,
\* and the mapping holds at most one entry per object identifier.
C28_OneFetchPerObject ==
    /\ \A i, j \in 1..Len(getObjectCalls) :
         i # j => getObjectCalls[i] # getObjectCalls[j]
    /\ \A i, j \in 1..Len(txBlock.enrichedObjects) :
         i # j => txBlock.enrichedObjects[i].key # txBlock.enrichedObjects[j].key

(***************************************************************************)
(* Spec: one top-level call of fetchTransactionDetails (lines 90-163) with *)
(* retryWithBackoff (62-88) and tryAlternativeEndpoint (28-50), for every  *)
(* behaviour of the endpoints: each getTransactionBlock and each health    *)
(* probe succeeds or fails (a rejection or the expiry of withTimeout).     *)
(*                                                                         *)
(* attemptedFallback is a local of the call, so the recursive call of line *)
(* 141 starts with a fresh one; the caller returns the promise of the      *)
(* recursive call, so only the innermost call is live and depth counts the *)
(* calls made so far.  MaxDepth cuts the recursion of the model.           *)
(***************************************************************************)

MaxDepth == 2

MaxRetries == 3

FALLBACK_RPC_URLS ==
    << "https://fullnode.mainnet.sui.io:443",
       "https://sui-mainnet-rpc.nodereal.io",
       "https://sui-mainnet.nodeinfra.com" >>

\* lines 7-14
getRpcUrl(dev) == IF dev THEN "/sui-rpc" ELSE "https://fullnode.mainnet.sui.io:443"

FetchTimeoutMessage == "Transaction fetch timed out after 20 seconds"

\* the messages of the errors getTransactionBlock under withTimeout ends with
ErrorMessages ==
    { FetchTimeoutMessage,
      "Could not find the referenced transaction: not found",
      "Unexpected status code: 429",
      "Request timeout" }

\* lines 146-159: the message of the error thrown to the caller (the leading
\* pictograph of each message is left out)
FriendlyError(message) ==
    IF Includes(message, "504") \/ Includes(message, "timeout") \/ Includes(message, "Timeout")
    THEN "The Sui network is slow to respond. Please try again in a moment. If the issue persists, the transaction ID might be incorrect."
    ELSE IF Includes(message, "404") \/ Includes(message, "not found")
    THEN "Transaction not found. Please check the transaction ID and try again."
    ELSE IF Includes(message, "429")
    THEN "Rate limit exceeded. Please wait a moment and try again."
    ELSE IF Includes(message, "ECONNREFUSED") \/ Includes(message, "ENOTFOUND")
    THEN "Cannot connect to Sui network. Please check your internet connection."
    ELSE "Failed to fetch transaction: " \o message

\* the raw transactions getTransactionBlock answers with
FetchedTxBlocks ==
    { [sender |-> AddressPool[1],
       objectChanges |-> WithObjectIds(
           << TransferredChange("", CoinType, StringOwner(AddressPool[1]),
                                AddressOwner(AddressPool[4])) >>),
       balanceChanges |-> <<BalanceChange(AddressOwner(AddressPool[4]), SuiType, "1000000")>>,
       enrichedObjects |-> <<>>,
       gasUsed |-> NoGasUsed, transactions |-> <<>>],
      [sender |-> AddressPool[1],
       objectChanges |-> WithObjectIds(
           << CreatedChange("", NftType, AddressOwner(AddressPool[2])),
              TransferredChange("", NftType, StringOwner(AddressPool[1]),
                                AddressOwner(AddressPool[2])) >>),
       balanceChanges |-> <<>>,
       enrichedObjects |-> <<>>,
       gasUsed |-> NoGasUsed, transactions |-> <<>>],
      [sender |-> AddressPool[1],
       objectChanges |-> WithObjectIds(
           << CreatedChange("", TicketType, AddressOwner(AddressPool[2])) >>),
       balanceChanges |-> <<>>,
       enrichedObjects |-> <<>>,
       gasUsed |-> GasUsed("100", "50", "30"),
       transactions |-> << MoveCall("0xa", "ticket", "mint") >>] }

Init ==
    /\ pc = "fetch"
    /\ isDev \in BOOLEAN
    /\ client = getRpcUrl(isDev)
    /\ attempt = 0
    /\ attemptedFallback = FALSE
    /\ depth = 0
    /\ switches = 0
    /\ restarts = 0
    /\ probeIndex = 0
    /\ lastError = ""
    /\ outcome = [kind |-> "none", message |-> ""]
    /\ ClassifierIdle
    /\ LabelerIdle
    /\ ParseIdle
    /\ EnrichIdle
    /\ SynthIdle
    /\ HistoryIdle

\* line 112: the initialDelay argument
InitialDelayMs == 2000

\* a wait that does not grow
BackoffDelayConstant(i) == InitialDelayMs

\* line 80: initialDelay * Math.pow(2, i)
BackoffDelay(i) == InitialDelayMs * (2 ^ i)

\* line 97-114: an attempt of retryWithBackoff returns the transaction block; the
\* errors retryWithBackoff kept are gone with it
GetTransactionBlockResolves ==
    /\ pc = "fetch"
    /\ txBlock' \in FetchedTxBlocks
    /\ lastError' = ""
    /\ pc' = "enrich"
    /\ attemptErrors' = <<>>
    /\ UNCHANGED <<isDev, client, attempt, attemptedFallback, depth, switches, restarts,
                   probeIndex, outcome, objectsCreated, objectsTransferred, loopIndex,
                   clsVars, labelVars, enrichVars, synthVars, delays, firstRun, sharedVars>>

\* lines 145-161: the catch block throws the rewritten error to the caller
ThrowFriendly(message) ==
    /\ outcome' = [kind |-> "error", message |-> FriendlyError(message)]
    /\ pc' = "thrown"

\* lines 74-84: an attempt that is not the last one fails; the retry waits
GetTransactionBlockFailsRetry ==
    /\ pc = "fetch"
    /\ attempt < MaxRetries - 1
    /\ \E message \in ErrorMessages :
         /\ lastError' = message
         /\ attemptErrors' = Append(attemptErrors, message)
    /\ delays' = Append(delays, BackoffDelay(attempt))
    /\ pc' = "backoff"
    /\ UNCHANGED <<isDev, client, attempt, attemptedFallback, depth, switches, restarts,
                   probeIndex, outcome, clsVars, labelVars, parseVars, enrichVars, synthVars,
                   firstRun, sharedVars>>

\* line 82: the delay of initialDelay * 2^i has elapsed; the next attempt starts
BackoffElapses ==
    /\ pc = "backoff"
    /\ attempt' = attempt + 1
    /\ pc' = "fetch"
    /\ UNCHANGED <<isDev, client, attemptedFallback, depth, switches, restarts,
                   probeIndex, lastError, outcome, clsVars, labelVars, parseVars,
                   enrichVars, synthVars,
                   historyVars>>

\* lines 74-87 and 131-143: the last attempt fails, retryWithBackoff throws its
\* error and the catch block starts the first health probe, or throws
GetTransactionBlockFailsLast ==
    /\ pc = "fetch"
    /\ attempt = MaxRetries - 1
    /\ \E message \in ErrorMessages :
         /\ lastError' = message
         /\ attemptErrors' = Append(attemptErrors, message)
         /\ IF ~attemptedFallback /\ ~isDev
            THEN /\ attemptedFallback' = TRUE
                 /\ probeIndex' = 1
                 /\ pc' = "probe"
                 /\ UNCHANGED outcome
            ELSE /\ ThrowFriendly(message)
                 /\ UNCHANGED <<attemptedFallback, probeIndex>>
    /\ UNCHANGED <<isDev, client, attempt, depth, switches, restarts, clsVars, labelVars,
                   parseVars, enrichVars, synthVars, delays, firstRun, sharedVars>>

\* lines 128 and 131-161: parseTransaction has raised; the catch block takes the
\* error like one of the fetch and starts the first health probe, or throws
CatchParseError ==
    /\ pc = "raised"
    /\ IF ~attemptedFallback /\ ~isDev
       THEN /\ attemptedFallback' = TRUE
            /\ probeIndex' = 1
            /\ pc' = "probe"
            /\ UNCHANGED outcome
       ELSE /\ ThrowFriendly(lastError)
            /\ UNCHANGED <<attemptedFallback, probeIndex>>
    /\ UNCHANGED <<isDev, client, attempt, depth, switches, restarts, lastError, clsVars,
                   labelVars, parseVars, enrichVars, synthVars, historyVars>>

\* lines 37-44 and 139-141: the health probe of FALLBACK_RPC_URLS[probeIndex]
\* answers; the client is replaced and fetchTransactionDetails calls itself
HealthCheckPasses ==
    /\ pc = "probe"
    /\ depth < MaxDepth
    /\ client' = FALLBACK_RPC_URLS[probeIndex]
    /\ switches' = switches + 1
    /\ restarts' = restarts + 1
    /\ depth' = depth + 1
    /\ attemptedFallback' = FALSE
    /\ attempt' = 0
    /\ probeIndex' = 0
    /\ lastError' = ""
    /\ delays' = <<>>
    /\ attemptErrors' = <<>>
    /\ pc' = "fetch"
    /\ UNCHANGED <<isDev, outcome, clsVars, labelVars, parseVars, enrichVars, synthVars,
                   firstRun, sharedVars>>

\* lines 45-49 and 143-161: the health probe fails or takes more than 5000 ms;
\* the next endpoint is probed, and after the last one the catch block throws
HealthCheckFails ==
    /\ pc = "probe"
    /\ IF probeIndex < Len(FALLBACK_RPC_URLS)
       THEN /\ probeIndex' = probeIndex + 1
            /\ UNCHANGED <<pc, outcome>>
       ELSE /\ ThrowFriendly(lastError)
            /\ UNCHANGED probeIndex
    /\ UNCHANGED <<isDev, client, attempt, attemptedFallback, depth, switches, restarts,
                   lastError, clsVars, labelVars, parseVars, enrichVars, synthVars,
                   historyVars>>

Next ==
    \/ GetTransactionBlockResolves
    \/ GetTransactionBlockFailsRetry
    \/ BackoffElapses
    \/ GetTransactionBlockFailsLast
    \/ HealthCheckPasses
    \/ HealthCheckFails
    \/ NextEnrich
    \/ CatchParseError

Spec == Init /\ [][Next]_vars

\* C1: one top-level call switches the active data source at most once and
\* restarts the fetch-and-interpret pipeline at most once.
C1_AtMostOneSwitchAndRestart ==
    /\ switches <= 1
    /\ restarts <= 1


\* C17: the call ends with a ParsedTransaction or with one thrown error, and an
\* error is thrown only when the transaction fetch of the pass failed on all of
\* its attempts, never because interpretation raised on a fetched transaction.
C17_ErrorOnlyAfterFetchFailed ==
    outcome.kind = "error" =>
        /\ Len(attemptErrors) = MaxRetries
        /\ outcome.message = FriendlyError(attemptErrors[MaxRetries])

\* the slow-network message of line 148, without its pictograph
C25_SlowNetworkMessage ==
    "The Sui network is slow to respond. Please try again in a moment. If the issue persists, the transaction ID might be incorrect."

\* every attempt of the failed pass ended by the expiry of the 20 s timeout
C25_EveryAttemptTimedOut ==
    /\ Len(attemptErrors) = MaxRetries
    /\ \A k \in 1..MaxRetries : attemptErrors[k] = FetchTimeoutMessage

\* C25: when every attempt of the transaction fetch ends by the expiry of the
\* 20 s timeout and no fallback succeeds, the error thrown to the caller is the
\* slow-network message.
C25_TimeoutsGiveSlowNetwork ==
    outcome.kind = "error" /\ C25_EveryAttemptTimedOut =>
        outcome.message = C25_SlowNetworkMessage

\* a step that replaces the active client (line 43)
C29_Switches == switches' # switches

\* the step selects the endpoint under probe, reached after the probes of all
\* earlier list entries failed, and leaves the client alone otherwise
C29_SelectsProbedEndpoint ==
    /\ C29_Switches => /\ pc = "probe"
                       /\ ~isDev
                       /\ probeIndex \in 1..Len(FALLBACK_RPC_URLS)
                       /\ client' = FALLBACK_RPC_URLS[probeIndex]
    /\ ~C29_Switches => client' = client

\* the probed entries are visited in list order
C29_ProbesInListOrder ==
    pc = "probe" /\ pc' = "probe" /\ probeIndex' # probeIndex =>
        probeIndex' = probeIndex + 1

C29_SwitchIsOrderly == [][C29_SelectsProbedEndpoint /\ C29_ProbesInListOrder]_vars

\* C29: whenever tryAlternativeEndpoint switches the active data source, the
\* alternates were probed in list order, the selected one is the first whose
\* probe succeeded, and its endpoint differs from the endpoint of the source
\* whose fetch has just failed; without a successful probe, and in development
\* mode, the active source stays as it is.
C29_SwitchGoesToAnotherEndpoint ==
    [][/\ C29_SelectsProbedEndpoint
       /\ C29_ProbesInListOrder
       /\ (C29_Switches => client' # client)]_vars

\* the transaction fetch of the running pass has returned
FetchSucceeded ==
    pc \in {"enrich", "awaiting", "normalize", "sender", "created", "transfers", "balances",
            "synthesize", "parsed", "raised", "returned"}

\* C18: in one pass retryWithBackoff invokes the transaction fetch at most 3 times
\* (attempt i runs after i failures and none runs after a success), waits 2000 ms
\* after the first failure and 4000 ms after the second, does not wait after the
\* third, and then fails with the error of the third attempt.
C18_RetrySchedule ==
    /\ attempt + 1 <= MaxRetries
    /\ Len(attemptErrors) <= MaxRetries
    /\ pc = "fetch" => Len(attemptErrors) = attempt
    /\ pc = "backoff" => Len(attemptErrors) = attempt + 1 /\ Len(delays) = attempt + 1
    /\ FetchSucceeded => Len(delays) = attempt
    /\ Len(delays) <= 2
    /\ Len(delays) >= 1 => delays[1] = 2000
    /\ Len(delays) >= 2 => delays[2] = 4000
    /\ Len(attemptErrors) = MaxRetries =>
         /\ pc \in {"probe", "thrown"}
         /\ Len(delays) = 2
         /\ lastError = attemptErrors[MaxRetries]
         /\ pc = "thrown" => outcome.message = FriendlyError(attemptErrors[MaxRetries])

\* a pass has failed after three attempts with different errors and two waits
C18_Witness ==
    /\ pc = "thrown"
    /\ Len(attemptErrors) = MaxRetries
    /\ attemptErrors[1] # attemptErrors[MaxRetries]
    /\ attemptErrors[2] # attemptErrors[MaxRetries]
    /\ delays = <<2000, 4000>>

(***************************************************************************)
(* SpecLive: the call of Spec with the recursion of line 141 not cut.  At  *)
(* MaxDepth the history counters depth, switches and restarts stop         *)
(* counting, and a passing health probe still replaces the client and      *)
(* starts the next call.                                                   *)
(*                                                                         *)
(* Fairness: the call is one thread of control.  Every remote call settles *)
(* or is cut off by its timer (withTimeout, lines 53-60; the timers of     *)
(* enrichWithObjectData, lines 199-211), every wait of retryWithBackoff    *)
(* elapses (line 82) and the synchronous code of parseTransaction runs to  *)
(* its end, so the call never rests at a position it can leave.  Which     *)
(* outcome a remote call has is not constrained.  The two synchronous      *)
(* steps Normalize and Synthesize are the only steps from their positions, *)
(* so their fairness is stated on the position they leave.                 *)
(***************************************************************************)

\* lines 37-44 and 139-141, at a depth the counters no longer record
HealthCheckPassesAgain ==
    /\ pc = "probe"
    /\ depth = MaxDepth
    /\ client' = FALLBACK_RPC_URLS[probeIndex]
    /\ attemptedFallback' = FALSE
    /\ attempt' = 0
    /\ probeIndex' = 0
    /\ lastError' = ""
    /\ delays' = <<>>
    /\ attemptErrors' = <<>>
    /\ pc' = "fetch"
    /\ UNCHANGED <<isDev, depth, switches, restarts, outcome, clsVars, labelVars, parseVars,
                   enrichVars, synthVars, firstRun, sharedVars>>

NextLive == Next \/ HealthCheckPassesAgain

\* the steps that wait for a remote call, a timer or a loop iteration
CallStep ==
    \/ GetTransactionBlockResolves
    \/ GetTransactionBlockFailsRetry
    \/ BackoffElapses
    \/ GetTransactionBlockFailsLast
    \/ HealthCheckPasses
    \/ HealthCheckPassesAgain
    \/ HealthCheckFails
    \/ CatchParseError
    \/ EnrichStart
    \/ GetObjectResolves
    \/ GetObjectRejects
    \/ TimerFires
    \/ ParseMapSender
    \/ MapCreatedOwner
    \/ CreatedLoopDone
    \/ MapTransfer
    \/ TransfersLoopDone
    \/ MapBalanceOwner
    \/ BalancesLoopDone
    \/ ReturnParsed

\* the positions Normalize and Synthesize leave and reach
SynchronousStep ==
    \/ pc = "normalize" /\ pc' = "sender"
    \/ pc = "synthesize" /\ pc' \in {"parsed", "raised"}

SpecLive == Init /\ [][NextLive]_vars /\ WF_vars(CallStep) /\ WF_pc(SynchronousStep)

\* C19: every call of fetchTransactionDetails eventually returns or throws, also
\* when an alternate endpoint keeps passing the health probe while every
\* transaction fetch fails.
C19_EventuallyReturnsOrThrows == <>(outcome.kind # "none")

(***************************************************************************)
(* SpecShared: several calls of fetchTransactionDetails in flight in one   *)
(* production page.  client is the module-wide variable of line 23; each   *)
(* call has its own attemptedFallback, its own loop counter and its own    *)
(* position in FALLBACK_RPC_URLS.  An attempt is sent when the closure of  *)
(* lines 97-111 runs and settles later, so a switch made by another call   *)
(* can fall between the two.  What follows a fetched transaction is kept   *)
(* as its two ends: parseTransaction returns, or the catch block is        *)
(* entered.  MaxSharedDepth cuts the recursion of each call.               *)
(***************************************************************************)

NumCalls == 2

MaxSharedDepth == 1

CallIds == 1..NumCalls

NewCall == [pc |-> "fetch", attempt |-> 0, attemptedFallback |-> FALSE, probeIndex |-> 0,
            depth |-> 0]

\* the variables the concurrent calls leave alone
sharedRest ==
    <<pc, clsVars, labelVars, parseVars, enrichVars, synthVars, delays, attemptErrors, firstRun,
      isDev, attempt, attemptedFallback, depth, restarts, probeIndex, lastError, outcome>>

InitShared ==
    /\ pc = "concurrent"
    /\ isDev = FALSE
    /\ client = getRpcUrl(isDev)
    /\ attempt = 0
    /\ attemptedFallback = FALSE
    /\ depth = 0
    /\ switches = 0
    /\ restarts = 0
    /\ probeIndex = 0
    /\ lastError = ""
    /\ outcome = [kind |-> "none", message |-> ""]
    /\ ClassifierIdle
    /\ LabelerIdle
    /\ ParseIdle
    /\ EnrichIdle
    /\ SynthIdle
    /\ delays = <<>>
    /\ attemptErrors = <<>>
    /\ firstRun = NoRun
    /\ activeCalls = [c \in CallIds |-> NewCall]
    /\ fetchLog = [selected |-> getRpcUrl(isDev), by |-> 0, attempts |-> {}]

\* an endpoint fixed when the module was loaded
AttemptEndpointAtLoad == getRpcUrl(isDev)

\* line 99: client.getTransactionBlock reads the module variable when the closure
\* runs, at every attempt
AttemptEndpoint == client

\* lines 70-73 and 97-111: call c sends an attempt of the transaction fetch
AttemptStarts(c) ==
    /\ activeCalls[c].pc = "fetch"
    /\ fetchLog' = [fetchLog EXCEPT !.attempts =
                        @ \cup {[call |-> c, index |-> activeCalls[c].attempt,
                                 url |-> AttemptEndpoint]}]
    /\ activeCalls' = [activeCalls EXCEPT ![c].pc = "inflight"]
    /\ UNCHANGED <<client, switches, sharedRest>>

\* lines 131-143: the catch block of call c starts the first health probe, or
\* throws (lines 145-161)
CatchOf(call) ==
    IF ~call.attemptedFallback /\ ~isDev
    THEN [call EXCEPT !.attemptedFallback = TRUE, !.probeIndex = 1, !.pc = "probe"]
    ELSE [call EXCEPT !.pc = "thrown"]

\* lines 74-87: the attempt of call c fails or is cut off by withTimeout; the
\* retry waits, and after the last attempt the error reaches the catch block
AttemptFails(c) ==
    /\ activeCalls[c].pc = "inflight"
    /\ activeCalls' =
         [activeCalls EXCEPT ![c] =
            IF activeCalls[c].attempt < MaxRetries - 1
            THEN [activeCalls[c] EXCEPT !.pc = "backoff"]
            ELSE CatchOf(activeCalls[c])]
    /\ UNCHANGED <<client, switches, fetchLog, sharedRest>>

\* line 82: the wait of call c has elapsed
AttemptBackoffElapses(c) ==
    /\ activeCalls[c].pc = "backoff"
    /\ activeCalls' = [activeCalls EXCEPT ![c].attempt = activeCalls[c].attempt + 1,
                                          ![c].pc = "fetch"]
    /\ UNCHANGED <<client, switches, fetchLog, sharedRest>>

\* line 73: the attempt of call c returns the transaction block
AttemptResolves(c) ==
    /\ activeCalls[c].pc = "inflight"
    /\ activeCalls' = [activeCalls EXCEPT ![c].pc = "interpret"]
    /\ UNCHANGED <<client, switches, fetchLog, sharedRest>>

\* lines 116-130: enrichment and parseTransaction end and call c returns
InterpretationReturns(c) ==
    /\ activeCalls[c].pc = "interpret"
    /\ activeCalls' = [activeCalls EXCEPT ![c].pc = "returned"]
    /\ UNCHANGED <<client, switches, fetchLog, sharedRest>>

\* lines 128 and 131: parseTransaction raises and the catch block is entered
InterpretationRaises(c) ==
    /\ activeCalls[c].pc = "interpret"
    /\ activeCalls' = [activeCalls EXCEPT ![c] = CatchOf(activeCalls[c])]
    /\ UNCHANGED <<client, switches, fetchLog, sharedRest>>

\* lines 37-44 and 139-141: the health probe of call c answers; client is
\* assigned and the call invokes fetchTransactionDetails again
ProbePasses(c) ==
    /\ activeCalls[c].pc = "probe"
    /\ activeCalls[c].depth < MaxSharedDepth
    /\ client' = FALLBACK_RPC_URLS[activeCalls[c].probeIndex]
    /\ switches' = switches + 1
    /\ fetchLog' = [selected |-> FALLBACK_RPC_URLS[activeCalls[c].probeIndex], by |-> c,
                    attempts |-> {}]
    /\ activeCalls' = [activeCalls EXCEPT ![c] =
                         [NewCall EXCEPT !.depth = activeCalls[c].depth + 1]]
    /\ UNCHANGED sharedRest

\* lines 45-49 and 143-161: the health probe of call c fails; the next endpoint
\* is probed, and after the last one the catch block throws
ProbeFails(c) ==
    /\ activeCalls[c].pc = "probe"
    /\ activeCalls' =
         [activeCalls EXCEPT ![c] =
            IF activeCalls[c].probeIndex < Len(FALLBACK_RPC_URLS)
            THEN [activeCalls[c] EXCEPT !.probeIndex = activeCalls[c].probeIndex + 1]
            ELSE [activeCalls[c] EXCEPT !.pc = "thrown"]]
    /\ UNCHANGED <<client, switches, fetchLog, sharedRest>>

NextShared ==
    \E c \in CallIds :
        \/ AttemptStarts(c)
        \/ AttemptFails(c)
        \/ AttemptBackoffElapses(c)
        \/ AttemptResolves(c)
        \/ InterpretationReturns(c)
        \/ InterpretationRaises(c)
        \/ ProbePasses(c)
        \/ ProbeFails(c)

SpecShared == InitShared /\ [][NextShared]_vars

\* C27: every fetch attempt of any call goes to the endpoint selected by the
\* latest switch made before it by any call (the first endpoint when there is
\* none), also an attempt of a call that was between retries when the switch
\* happened, and the active client is the one the last switch wrote.
C27_AttemptsFollowLastSwitch ==
    /\ \A e \in fetchLog.attempts : e.url = fetchLog.selected
    /\ client = fetchLog.selected

\* the second switch, to an endpoint other than the first one, was made while
\* another call was between two retries: that call sent its attempt before the
\* switch and its next attempt after it, to the endpoint the switch selected
C27_Witness ==
    /\ switches = 2
    /\ fetchLog.selected # getRpcUrl(isDev)
    /\ client = fetchLog.selected
    /\ \E e \in fetchLog.attempts :
         /\ e.call # fetchLog.by
         /\ e.index >= 1
         /\ \A f \in fetchLog.attempts : ~(f.call = e.call /\ f.index = e.index - 1)
         /\ e.url = fetchLog.selected

=============================================================================
